---- MODULE Spec2Model ----
(***************************************************************************)
(* Table normalizer (table-dom-normalizer) and style cascade resolver      *)
(* (html-style-preprocessor, css-specificity) of the markdown viewer's     *)
(* DOCX export, as state machines over small DOM trees and stylesheets.    *)
(* Rows, columns and positions keep the source's 0-based numbering; the    *)
(* sequences that hold them are 1-based, so position n is stored at n+1.   *)
(***************************************************************************)
EXTENDS Integers, Sequences, FiniteSets, TLC

VARIABLES
    table,        \* the DOM tree of the <table> being normalized
    env,          \* what the DOM implementation offers (rows API, closest)
    pc,           \* position in normalizeTableElement / preprocessHtmlForDocx
    rows,         \* const rows = getTableRows(table): paths of the rows
    rowGroupEnds, \* const rowGroupEnds = getRowGroupEnds(rows)
    maxColumns,   \* const maxColumns = computeMaxColumns(rows, rowGroupEnds)
    r,            \* the row index of the second pass
    spanTracker,  \* const spanTracker: number[]
    grid,         \* const grid: TableDomCell[][]
    placed,       \* the cells placed so far by the second pass, in order
    rowCount,     \* result.rowCount
    colCount,     \* result.colCount
    html,         \* the elements of the document as given, before any change
    doc,          \* the parsed document: its elements, in document order
    sheet,        \* postcss.parse(cssText): the nodes of the stylesheet
    cpc,          \* position in preprocessHtmlForDocx / applyCss
    ruleIndex,    \* how many rules walkRules has visited
    order,        \* let order = 0 (applyCss)
    state,        \* const state = new Map<Element, Map<string, DeclMeta>>()
    selInput,     \* the selector given to calculateSpecificity, as parsed
    selResult,    \* let result: Specificity (calculateSpecificity)
    spc,          \* position in calculateSpecificity
    rawHtml,      \* the html given when no DOMParser is defined
    stripped,     \* what preprocessHtmlForDocx returns then
    fpc,          \* position in preprocessHtmlForDocx without DOMParser
    model,        \* the TableDomModel given to convertTableDomToDocx
    docx,         \* const rows: TableRow[] (convertTableDomToDocx)
    brow,         \* the row index r of convertTableDomToDocx
    bpc,          \* position in convertTableDomToDocx
    tableNode,    \* the HtmlTableNode that parseTable returns, or null
    etable,       \* const rows: TableRow[] (convertTable of the editable AST)
    epc           \* position in the export of the editable AST

tvars == <<table, env, pc, rows, rowGroupEnds, maxColumns, r, spanTracker,
           grid, placed, rowCount, colCount>>

cvars == <<html, doc, sheet, cpc, ruleIndex, order, state>>

svars == <<selInput, selResult, spc>>

fvars == <<rawHtml, stripped, fpc>>

bvars == <<model, docx, brow, bpc>>

ovars == <<selInput, selResult, spc, rawHtml, stripped, fpc, model, docx, brow, bpc>>

evars == <<tableNode, etable, epc>>

vars == <<table, env, pc, rows, rowGroupEnds, maxColumns, r, spanTracker,
          grid, placed, rowCount, colCount, html, doc, sheet, cpc, ruleIndex, order,
          state, selInput, selResult, spc, rawHtml, stripped, fpc, model, docx, brow,
          bpc, tableNode, etable, epc>>

\* calculateSpecificity, the path without DOMParser and convertTableDomToDocx
\* are not running
SpecificityIdle == selInput = <<>> /\ selResult = <<>> /\ spc = "off"

FallbackIdle == rawHtml = <<>> /\ stripped = <<>> /\ fpc = "off"

BuilderIdle == model = <<>> /\ docx = <<>> /\ brow = 0 /\ bpc = "off"

\* parseTable and convertTable of the editable AST are not running
EditableIdle == tableNode = <<>> /\ etable = <<>> /\ epc = "off"

-----------------------------------------------------------------------------
(* Bounds of the model *)

MaxRows == 3
MaxCellsTotal == 3
MaxRules == 2

-----------------------------------------------------------------------------
(* Small helpers *)

Max(a, b) == IF a >= b THEN a ELSE b

RECURSIVE Flatten(_)
Flatten(ss) == IF ss = <<>> THEN <<>> ELSE Head(ss) \o Flatten(Tail(ss))

RECURSIVE SumTo(_, _)
SumTo(f, n) == IF n = 0 THEN 0 ELSE f[n] + SumTo(f, n - 1)

-----------------------------------------------------------------------------
(* The DOM: a node is a record; an element is identified by its path, the   *)
(* sequence of child indexes that leads to it from the table element.       *)

NoAttr == [present |-> FALSE, value |-> ""]
Attr(s) == [present |-> TRUE, value |-> s]

TextNode(chars) ==
    [tag |-> "#text", rowspan |-> NoAttr, colspan |-> NoAttr,
     text |-> chars, kids |-> <<>>]
Elem(tag, kids) ==
    [tag |-> tag, rowspan |-> NoAttr, colspan |-> NoAttr,
     text |-> <<>>, kids |-> kids]
CellElem(tag, rs, cs, kids) ==
    [tag |-> tag, rowspan |-> rs, colspan |-> cs, text |-> <<>>, kids |-> kids]

RECURSIVE NodeAt(_, _)
NodeAt(node, path) ==
    IF path = <<>> THEN node ELSE NodeAt(node.kids[Head(path)], Tail(path))

\* the element descendants and text nodes below node, in document order
RECURSIVE DescPaths(_, _)
DescPaths(node, prefix) ==
    Flatten([i \in 1..Len(node.kids) |->
        <<Append(prefix, i)>> \o DescPaths(node.kids[i], Append(prefix, i))])

ChildPaths(root, path) ==
    [i \in 1..Len(NodeAt(root, path).kids) |-> Append(path, i)]

TagOf(root, path) == NodeAt(root, path).tag

\* element.querySelectorAll(tag)
QuerySelectorAll(root, path, tags) ==
    SelectSeq(DescPaths(NodeAt(root, path), path),
              LAMBDA p : TagOf(root, p) \in tags)

ParentElement(path) == SubSeq(path, 1, Len(path) - 1)

NoElement == <<0>>

\* element.closest(tag): the nearest inclusive ancestor with the tag
RECURSIVE Closest(_, _, _)
Closest(root, path, tag) ==
    IF TagOf(root, path) = tag THEN path
    ELSE IF path = <<>> THEN NoElement
    ELSE Closest(root, ParentElement(path), tag)

\* HTMLTableElement.rows: the rows of the thead, then the rows that are
\* children of the table or of a tbody in tree order, then those of the tfoot
TableRowsApi(root, tpath) ==
    LET kids == ChildPaths(root, tpath)
        TrOf(p) == SelectSeq(ChildPaths(root, p), LAMBDA q : TagOf(root, q) = "tr")
        InGroup(g) ==
            Flatten([i \in 1..Len(kids) |->
                IF TagOf(root, kids[i]) = g THEN TrOf(kids[i]) ELSE <<>>])
        Body ==
            Flatten([i \in 1..Len(kids) |->
                IF TagOf(root, kids[i]) = "tr" THEN <<kids[i]>>
                ELSE IF TagOf(root, kids[i]) = "tbody" THEN TrOf(kids[i])
                ELSE <<>>])
    IN  InGroup("thead") \o Body \o InGroup("tfoot")

\* node.textContent
RECURSIVE TextContent(_)
TextContent(node) ==
    IF node.tag = "#text" THEN node.text
    ELSE Flatten([i \in 1..Len(node.kids) |-> TextContent(node.kids[i])])

\* the clone of a node after table.remove() on every table below it
RECURSIVE RemoveTables(_)
RemoveTables(node) ==
    LET keep == SelectSeq(node.kids, LAMBDA k : k.tag # "table")
    IN  [node EXCEPT !.kids = [i \in 1..Len(keep) |-> RemoveTables(keep[i])]]

IsSpace(ch) == ch = " "

\* String.prototype.trim
RECURSIVE TrimStart(_)
TrimStart(s) ==
    IF s # <<>> /\ IsSpace(Head(s)) THEN TrimStart(Tail(s)) ELSE s
RECURSIVE TrimEnd(_)
TrimEnd(s) ==
    IF s # <<>> /\ IsSpace(s[Len(s)]) THEN TrimEnd(SubSeq(s, 1, Len(s) - 1)) ELSE s
Trim(s) == TrimEnd(TrimStart(s))

-----------------------------------------------------------------------------
(* table-dom-normalizer *)

Null == <<>>

\* Number(value) for the attribute strings of the model: whether the result
\* is finite, and Math.floor of it
JsNumber(s) ==
    CASE s = "0" -> [finite |-> TRUE, floor |-> 0]
      [] s = "1" -> [finite |-> TRUE, floor |-> 1]
      [] s = "2" -> [finite |-> TRUE, floor |-> 2]
      [] s = "3" -> [finite |-> TRUE, floor |-> 3]
      [] s = "-1" -> [finite |-> TRUE, floor |-> -1]
      [] s = "1.5" -> [finite |-> TRUE, floor |-> 1]
      [] s = "0.5" -> [finite |-> TRUE, floor |-> 0]
      [] s = " " -> [finite |-> TRUE, floor |-> 0]
      [] s = "Infinity" -> [finite |-> FALSE, floor |-> 0]
      [] OTHER -> [finite |-> FALSE, floor |-> 0]

\* parseSpan: null, or <<n>> for the number n
ParseSpan(a) ==
    IF ~a.present \/ a.value = "" THEN Null
    ELSE IF JsNumber(a.value).finite THEN <<JsNumber(a.value).floor>> ELSE Null

NormalizeSpanValue(v) == IF v # Null /\ v[1] > 1 THEN v[1] ELSE 1

GetTableRowsUnfiltered(root, e) ==
    IF e.hasRows /\ TableRowsApi(root, <<>>) # <<>>
    THEN TableRowsApi(root, <<>>)
    ELSE QuerySelectorAll(root, <<>>, {"tr"})

GetTableRows(root, e) ==
    LET api == IF e.hasRows THEN TableRowsApi(root, <<>>) ELSE <<>>
        fallback == QuerySelectorAll(root, <<>>, {"tr"})
        Own(list) ==
            IF e.hasClosest
            THEN SelectSeq(list, LAMBDA p : Closest(root, p, "table") = <<>>)
            ELSE list
    IN  IF Len(api) > 0 THEN Own(api) ELSE Own(fallback)

GetRowCells(root, row) ==
    SelectSeq(ChildPaths(root, row), LAMBDA p : TagOf(root, p) \in {"td", "th"})

\* the loop of getRowGroupEnds: i runs from 1 to rows.length
RECURSIVE RowGroupEndsLoop(_, _, _, _, _)
RowGroupEndsLoop(rs, i, groupStart, currentParent, ends) ==
    IF i > Len(rs) THEN ends
    ELSE IF i = Len(rs) \/ ParentElement(rs[i + 1]) # currentParent
    THEN RowGroupEndsLoop(rs, i + 1, i,
            IF i = Len(rs) THEN NoElement ELSE ParentElement(rs[i + 1]),
            [j \in 1..Len(rs) |->
                IF j - 1 >= groupStart /\ j - 1 <= i - 1 THEN i - 1 ELSE ends[j]])
    ELSE RowGroupEndsLoop(rs, i + 1, groupStart, currentParent, ends)

GetRowGroupEnds(rs) ==
    IF Len(rs) = 0 THEN <<>>
    ELSE RowGroupEndsLoop(rs, 1, 0, ParentElement(rs[1]), [j \in 1..Len(rs) |-> -1])

GetCellTextWithNested(cell) == Trim(TextContent(cell))

GetCellText(cell) == Trim(TextContent(RemoveTables(cell)))

\* for (c...) if (spanTracker[c] > 0) spanTracker[c] -= 1
DecrementSpans(st) == [c \in 1..Len(st) |-> IF st[c] > 0 THEN st[c] - 1 ELSE st[c]]

\* while (spanTracker[col] > 0) col += 1
RECURSIVE SkipOccupied(_, _)
SkipOccupied(st, col) ==
    IF col < Len(st) /\ st[col + 1] > 0 THEN SkipOccupied(st, col + 1) ELSE col

\* spanTracker[c] = Math.max(spanTracker[c] || 0, rowspan - 1), c in col..col+colspan-1
MarkSpans(st, col, colspan, rowspan) ==
    [c \in 1..Max(Len(st), col + colspan) |->
        LET old == IF c <= Len(st) THEN st[c] ELSE 0
        IN  IF c - 1 >= col /\ c - 1 < col + colspan
            THEN Max(old, rowspan - 1) ELSE old]

RowspanOf(root, cell, ends, row) ==
    LET v == ParseSpan(NodeAt(root, cell).rowspan)
    IN  IF v = <<0>> THEN ends[row + 1] - row + 1 ELSE NormalizeSpanValue(v)

\* the cells of one row in computeMaxColumns, from cell k on; pl lists where
\* the pass has put the cells so far
RECURSIVE MaxColumnsCells(_, _, _, _, _, _, _, _, _)
MaxColumnsCells(root, cells, k, row, ends, col, st, mx, pl) ==
    IF k > Len(cells) THEN [st |-> st, mx |-> Max(mx, col), pl |-> pl]
    ELSE LET c0 == SkipOccupied(st, col)
             rowspan == RowspanOf(root, cells[k], ends, row)
             colspan == NormalizeSpanValue(ParseSpan(NodeAt(root, cells[k]).colspan))
         IN  MaxColumnsCells(root, cells, k + 1, row, ends, c0 + colspan,
                             MarkSpans(st, c0, colspan, rowspan),
                             Max(mx, c0 + colspan),
                             Append(pl, [cell |-> cells[k], row |-> row, col |-> c0,
                                         rowspan |-> rowspan, colspan |-> colspan]))

RECURSIVE MaxColumnsRows(_, _, _, _, _, _, _)
MaxColumnsRows(root, rs, ends, row, st, mx, pl) ==
    IF row >= Len(rs) THEN [mx |-> mx, pl |-> pl]
    ELSE LET res == MaxColumnsCells(root, GetRowCells(root, rs[row + 1]), 1, row,
                                    ends, 0, DecrementSpans(st), mx, pl)
         IN  MaxColumnsRows(root, rs, ends, row + 1, res.st, res.mx, res.pl)

ComputeMaxColumns(root, rs, ends) == MaxColumnsRows(root, rs, ends, 0, <<>>, 0, <<>>).mx

\* the start column and the spans computeMaxColumns gives every source cell
FirstPassPlaced(root, rs, ends) == MaxColumnsRows(root, rs, ends, 0, <<>>, 0, <<>>).pl

\* an unset slot of the grid (undefined)
Hole ==
    [row |-> -1, col |-> -1, originRow |-> -1, originCol |-> -1,
     rowspan |-> 0, colspan |-> 0, text |-> <<>>, nestedTables |-> <<>>]

WriteCellsClipped(g, row, col, rowspan, colspan, text, nested) ==
    [rr \in 1..Len(g) |->
        LET old == g[rr]
        IN  IF rr - 1 >= row /\ rr - 1 < row + rowspan
            THEN [cc \in 1..Max(Len(old), col + colspan) |->
                    IF cc - 1 >= col /\ cc - 1 < col + colspan
                    THEN [row |-> rr - 1, col |-> cc - 1, originRow |-> row,
                          originCol |-> col, rowspan |-> rowspan,
                          colspan |-> colspan, text |-> text,
                          nestedTables |-> nested]
                    ELSE IF cc <= Len(old) THEN old[cc] ELSE Hole]
            ELSE old]

WriteCellsOwnColumn(g, row, col, rowspan, colspan, text, nested) ==
    [rr \in 1..Max(Len(g), row + rowspan) |->
        LET old == IF rr <= Len(g) THEN g[rr] ELSE <<>>
        IN  IF rr - 1 >= row /\ rr - 1 < row + rowspan
            THEN [cc \in 1..Max(Len(old), col + colspan) |->
                    IF cc - 1 >= col /\ cc - 1 < col + colspan
                    THEN [row |-> rr - 1, col |-> cc - 1, originRow |-> row,
                          originCol |-> cc - 1, rowspan |-> rowspan,
                          colspan |-> colspan, text |-> text,
                          nestedTables |-> nested]
                    ELSE IF cc <= Len(old) THEN old[cc] ELSE Hole]
            ELSE old]

\* grid[rr][cc] = {...} for rr in row..row+rowspan-1, cc in col..col+colspan-1
WriteCells(g, row, col, rowspan, colspan, text, nested) ==
    [rr \in 1..Max(Len(g), row + rowspan) |->
        LET old == IF rr <= Len(g) THEN g[rr] ELSE <<>>
        IN  IF rr - 1 >= row /\ rr - 1 < row + rowspan
            THEN [cc \in 1..Max(Len(old), col + colspan) |->
                    IF cc - 1 >= col /\ cc - 1 < col + colspan
                    THEN [row |-> rr - 1, col |-> cc - 1, originRow |-> row,
                          originCol |-> col, rowspan |-> rowspan,
                          colspan |-> colspan, text |-> text,
                          nestedTables |-> nested]
                    ELSE IF cc <= Len(old) THEN old[cc] ELSE Hole]
            ELSE old]

\* the cells of one row in the second pass, from cell k on
RECURSIVE PlaceCells(_, _, _, _, _, _, _, _, _, _)
PlaceCells(root, cells, k, row, ends, mx, col, st, g, pl) ==
    IF k > Len(cells) THEN [st |-> st, grid |-> g, placed |-> pl]
    ELSE LET c0 == SkipOccupied(st, col)
             rowspan == RowspanOf(root, cells[k], ends, row)
             cv == ParseSpan(NodeAt(root, cells[k]).colspan)
             colspan == IF cv = <<0>> THEN Max(1, mx - c0) ELSE NormalizeSpanValue(cv)
             nested == QuerySelectorAll(root, cells[k], {"table"})
             text == GetCellText(NodeAt(root, cells[k]))
         IN  PlaceCells(root, cells, k + 1, row, ends, mx, c0 + colspan,
                        MarkSpans(st, c0, colspan, rowspan),
                        WriteCells(g, row, c0, rowspan, colspan, text, nested),
                        Append(pl, [cell |-> cells[k], row |-> row, col |-> c0,
                                    rowspan |-> rowspan, colspan |-> colspan]))

\* one iteration of the row loop of normalizeTableElement
NormalizeRow(root, rs, ends, mx, row, st, g, pl) ==
    PlaceCells(root, GetRowCells(root, rs[row + 1]), 1, row, ends, mx, 0,
               DecrementSpans(st),
               IF row + 1 > Len(g) THEN Append(g, <<>>) ELSE g, pl)

RowLengthMax(g) ==
    IF g = <<>> THEN 0
    ELSE CHOOSE n \in {Len(g[i]) : i \in 1..Len(g)} :
            \A i \in 1..Len(g) : Len(g[i]) <= n

\* Math.max(0, maxColumns, ...grid.map((row) => row.length))
ColCountOf(g, mx) == Max(0, Max(mx, RowLengthMax(g)))

PadGridNoFill(g, rc, cc) == g

\* the final loop: every unset slot becomes an empty 1x1 cell
PadGrid(g, rc, cc) ==
    [rr \in 1..rc |->
        [c \in 1..cc |->
            IF c <= Len(g[rr]) /\ g[rr][c] # Hole THEN g[rr][c]
            ELSE [row |-> rr - 1, col |-> c - 1, originRow |-> rr - 1,
                  originCol |-> c - 1, rowspan |-> 1, colspan |-> 1,
                  text |-> <<>>, nestedTables |-> <<>>]]]

RECURSIVE NormalizeRows(_, _, _, _, _, _, _, _)
NormalizeRows(root, rs, ends, mx, row, st, g, pl) ==
    IF row >= Len(rs) THEN [grid |-> g, placed |-> pl]
    ELSE LET res == NormalizeRow(root, rs, ends, mx, row, st, g, pl)
         IN  NormalizeRows(root, rs, ends, mx, row + 1, res.st, res.grid, res.placed)

\* normalizeTableElement as a function of the table
NormalizeTableElement(root, e) ==
    LET rs == GetTableRows(root, e)
        ends == GetRowGroupEnds(rs)
        mx == ComputeMaxColumns(root, rs, ends)
        res == NormalizeRows(root, rs, ends, mx, 0, <<>>, <<>>, <<>>)
        rc == Len(res.grid)
        cc == ColCountOf(res.grid, mx)
    IN  [rowCount |-> rc, colCount |-> cc, cells |-> PadGrid(res.grid, rc, cc),
         placed |-> res.placed]

-----------------------------------------------------------------------------
(* The tables of the model *)

Browser == [hasRows |-> TRUE, hasClosest |-> TRUE]
NoRowsApi == [hasRows |-> FALSE, hasClosest |-> TRUE]
NoClosest == [hasRows |-> TRUE, hasClosest |-> FALSE]

PlainText == <<TextNode(<<"x">>)>>

\* the rowspan/colspan attributes of the cells of the span family
SpanKinds ==
    { [rs |-> NoAttr, cs |-> NoAttr, kids |-> PlainText],
      [rs |-> Attr("0"), cs |-> NoAttr, kids |-> PlainText],
      [rs |-> Attr("2"), cs |-> NoAttr, kids |-> PlainText],
      [rs |-> NoAttr, cs |-> Attr("0"), kids |-> PlainText],
      [rs |-> NoAttr, cs |-> Attr("2"), kids |-> PlainText] }

Layouts == {"direct", "tbody", "headbody", "mixed"}

\* a table of n rows; row i holds sizes[i] cells, taken in order from flat
BuildTable(n, flat, sizes, layout) ==
    LET RowNode(i) ==
            Elem("tr", [j \in 1..sizes[i] |->
                LET k == flat[SumTo(sizes, i - 1) + j]
                IN  CellElem(IF layout = "headbody" /\ i = 1 THEN "th" ELSE "td",
                             k.rs, k.cs, k.kids)])
        rws == [i \in 1..n |-> RowNode(i)]
    IN  Elem("table",
            CASE layout = "direct" -> rws
              [] layout = "tbody" -> <<Elem("tbody", rws)>>
              [] layout = "headbody" ->
                    IF n = 0 THEN <<>>
                    ELSE IF n = 1 THEN <<Elem("thead", rws)>>
                    ELSE <<Elem("thead", <<rws[1]>>), Elem("tbody", Tail(rws))>>
              [] OTHER ->
                    [i \in 1..n |->
                        IF i % 2 = 1 THEN rws[i] ELSE Elem("tbody", <<rws[i]>>)])

TableInit(kinds, layouts, envs) ==
    /\ \E n \in 0..MaxRows, m \in 0..MaxCellsTotal, layout \in layouts :
         \E flat \in [1..m -> kinds], sizes \in [1..n -> 0..m] :
            /\ SumTo(sizes, n) = m
            /\ table = BuildTable(n, flat, sizes, layout)
    /\ env \in envs
    /\ pc = "start"
    /\ rows = <<>>
    /\ rowGroupEnds = <<>>
    /\ maxColumns = 0
    /\ r = 0
    /\ spanTracker = <<>>
    /\ grid = <<>>
    /\ placed = <<>>
    /\ rowCount = 0
    /\ colCount = 0
    /\ html = <<>>
    /\ doc = <<>>
    /\ sheet = <<>>
    /\ cpc = "off"
    /\ ruleIndex = 0
    /\ order = 0
    /\ state = <<>>
    /\ SpecificityIdle
    /\ FallbackIdle
    /\ BuilderIdle
    /\ EditableIdle

\* normalizeTableElement up to its row loop
Start ==
    /\ pc = "start"
    /\ rows' = GetTableRows(table, env)
    /\ rowGroupEnds' = GetRowGroupEnds(rows')
    /\ maxColumns' = ComputeMaxColumns(table, rows', rowGroupEnds')
    /\ pc' = "rows"
    /\ UNCHANGED <<table, env, r, spanTracker, grid, placed, rowCount, colCount>>
    /\ UNCHANGED cvars
    /\ UNCHANGED ovars
    /\ UNCHANGED evars

\* one iteration of for (let r = 0; r < rows.length; r++)
ProcessRow ==
    /\ pc = "rows"
    /\ r < Len(rows)
    /\ LET res == NormalizeRow(table, rows, rowGroupEnds, maxColumns, r,
                               spanTracker, grid, placed)
       IN  /\ spanTracker' = res.st
           /\ grid' = res.grid
           /\ placed' = res.placed
    /\ r' = r + 1
    /\ UNCHANGED <<table, env, pc, rows, rowGroupEnds, maxColumns, rowCount, colCount>>
    /\ UNCHANGED cvars
    /\ UNCHANGED ovars
    /\ UNCHANGED evars

\* rowCount, colCount and the padding loop, then return
Finish ==
    /\ pc = "rows"
    /\ r >= Len(rows)
    /\ rowCount' = Len(grid)
    /\ colCount' = ColCountOf(grid, maxColumns)
    /\ grid' = PadGrid(grid, rowCount', colCount')
    /\ pc' = "done"
    /\ UNCHANGED <<table, env, rows, rowGroupEnds, maxColumns, r, spanTracker, placed>>
    /\ UNCHANGED cvars
    /\ UNCHANGED ovars
    /\ UNCHANGED evars

NextNorm == Start \/ ProcessRow \/ Finish

InitNorm == TableInit(SpanKinds, Layouts, {Browser})

SpecNorm == InitNorm /\ [][NextNorm]_vars

-----------------------------------------------------------------------------
(* Properties of the normalized grid *)

InGrid(rr, cc) == rr >= 0 /\ rr < Len(grid) /\ cc >= 0 /\ cc < Len(grid[rr + 1])
CellAt(rr, cc) == grid[rr + 1][cc + 1]
HasOrigin(c, rr, cc) == c.originRow = rr /\ c.originCol = cc
SpanAttrIsZero(a) == ParseSpan(a) = <<0>>
PlacedCells == {placed[k] : k \in 1..Len(placed)}

\* C1: the returned grid has exactly rowCount rows, each of exactly colCount
\* defined cells, and the cell stored at cells[r][c] has row = r and col = c
C1_DenseGrid ==
    pc = "done" =>
        /\ Len(grid) = rowCount
        /\ \A rr \in 1..Len(grid) :
            /\ Len(grid[rr]) = colCount
            /\ \A cc \in 1..Len(grid[rr]) :
                /\ grid[rr][cc] # Hole
                /\ grid[rr][cc].row = rr - 1
                /\ grid[rr][cc].col = cc - 1

\* a finished table whose grid has more rows than the table (a rowspan runs
\* past the last row), a colspan="0" cell and a slot no source cell covers
C1_Witness ==
    /\ pc = "done"
    /\ rowCount > Len(rows)
    /\ \E p \in PlacedCells : SpanAttrIsZero(NodeAt(table, p.cell).colspan)
    /\ \E rr \in 0..(rowCount - 1), cc \in 0..(colCount - 1) :
        /\ HasOrigin(CellAt(rr, cc), rr, cc)
        /\ \A p \in PlacedCells : ~(p.row = rr /\ p.col = cc)

\* C2: every position of the span rectangle of every cell holds a cell with
\* the same origin, rowspan and colspan
C2_SpanCoverage ==
    pc = "done" =>
        \A rr \in 0..(rowCount - 1), cc \in 0..(colCount - 1) :
            LET c == CellAt(rr, cc)
            IN  \A i \in 0..(c.rowspan - 1), j \in 0..(c.colspan - 1) :
                    /\ InGrid(c.originRow + i, c.originCol + j)
                    /\ LET d == CellAt(c.originRow + i, c.originCol + j)
                       IN  /\ HasOrigin(d, c.originRow, c.originCol)
                           /\ d.rowspan = c.rowspan
                           /\ d.colspan = c.colspan

\* C3: a colspan="0" cell placed at column c occupies exactly the columns
\* c .. colCount-1 of its row
C3_ColspanZeroToLastColumn ==
    pc = "done" =>
        \A p \in PlacedCells :
            SpanAttrIsZero(NodeAt(table, p.cell).colspan) =>
                {cc \in 0..(colCount - 1) : HasOrigin(CellAt(p.row, cc), p.row, p.col)}
                    = p.col..(colCount - 1)

\* the last row of the contiguous run of rows that share row rr's parent
LastRowOfRun(rr) ==
    CHOOSE e \in rr..(Len(rows) - 1) :
        /\ \A j \in rr..e : ParentElement(rows[j + 1]) = ParentElement(rows[rr + 1])
        /\ (e + 1 < Len(rows) =>
                ParentElement(rows[e + 2]) # ParentElement(rows[rr + 1]))

\* C4: a rowspan="0" cell placed in row r gets rowspan = (last row of the
\* contiguous run of rows with row r's parent) - r + 1, and it occupies its
\* column in rows r up to that last row and in no later row
C4_RowspanZeroToGroupEnd ==
    pc = "done" =>
        \A p \in PlacedCells :
            SpanAttrIsZero(NodeAt(table, p.cell).rowspan) =>
                /\ p.rowspan = LastRowOfRun(p.row) - p.row + 1
                /\ {rr \in 0..(rowCount - 1) :
                        HasOrigin(CellAt(rr, p.col), p.row, p.col)}
                    = p.row..LastRowOfRun(p.row)

-----------------------------------------------------------------------------
(* Tables with nested tables *)

InnerCell(kids) == CellElem("td", NoAttr, NoAttr, kids)

\* a nested table of two rows whose first cell spans three columns
NestedTable ==
    Elem("table", <<Elem("tbody",
        <<Elem("tr", <<CellElem("td", NoAttr, Attr("3"), <<TextNode(<<"n">>)>>),
                       InnerCell(<<TextNode(<<"n">>)>>)>>),
          Elem("tr", <<InnerCell(<<TextNode(<<"n">>)>>)>>)>>)>>)

\* a nested table that itself holds a nested table
NestedTwice ==
    Elem("table", <<Elem("tr",
        <<InnerCell(<<TextNode(<<"n">>),
                      Elem("table", <<Elem("tr",
                          <<InnerCell(<<TextNode(<<"n">>)>>)>>)>>)>>)>>)>>)

NestedKinds ==
    { [rs |-> NoAttr, cs |-> NoAttr, kids |-> <<TextNode(<<"a">>)>>],
      [rs |-> NoAttr, cs |-> NoAttr,
       kids |-> <<TextNode(<<"a", "-">>), NestedTable, TextNode(<<"-", "b">>)>>],
      [rs |-> Attr("2"), cs |-> NoAttr, kids |-> <<NestedTable>>],
      [rs |-> NoAttr, cs |-> Attr("2"),
       kids |-> <<Elem("div", <<TextNode(<<" ">>), NestedTwice>>),
                  TextNode(<<"b", " ">>)>>] }

InitNested == TableInit(NestedKinds, {"direct", "tbody"}, {Browser, NoRowsApi, NoClosest})

SpecNested == InitNested /\ [][NextNorm]_vars

NearestTableIsRoot(path) == Closest(table, path, "table") = <<>>

OuterTextPaths(cell) ==
    SelectSeq(DescPaths(NodeAt(table, cell), cell),
              LAMBDA d : TagOf(table, d) = "#text" /\ NearestTableIsRoot(d))

OuterText(cell) ==
    LET paths == OuterTextPaths(cell)
    IN  Flatten([i \in 1..Len(paths) |-> NodeAt(table, paths[i]).text])

Contains(s, ch) == \E i \in 1..Len(s) : s[i] = ch

\* C6: the text of a normalized cell, at every grid position the cell holds,
\* is the trimmed text of the cell outside all nested tables: it has no
\* character of a nested table's cells ("n" in the model)
C6_TextExcludesNestedTables ==
    \A p \in PlacedCells :
        LET outer == Trim(OuterText(p.cell))
        IN  \A rr \in 0..(Len(grid) - 1) :
                \A cc \in 0..(Len(grid[rr + 1]) - 1) :
                    HasOrigin(CellAt(rr, cc), p.row, p.col) =>
                        /\ CellAt(rr, cc).text = outer
                        /\ ~Contains(CellAt(rr, cc).text, "n")

\* a cell with text before and after a nested table: both are kept
C6_Witness ==
    /\ pc = "done"
    /\ \E rr \in 0..(rowCount - 1), cc \in 0..(colCount - 1) :
        /\ CellAt(rr, cc).nestedTables # <<>>
        /\ CellAt(rr, cc).text = <<"a", "-", "-", "b">>

-----------------------------------------------------------------------------
(* css-specificity: selectors as postcss-selector-parser nodes *)

SelNode(type, value, nodes) == [type |-> type, value |-> value, nodes |-> nodes]
Tag(v) == SelNode("tag", v, <<>>)
Id(v) == SelNode("id", v, <<>>)
Class(v) == SelNode("class", v, <<>>)
Universal == SelNode("universal", "*", <<>>)
Combinator(v) == SelNode("combinator", v, <<>>)
Pseudo(v, sels) == SelNode("pseudo", v, sels)
Selector(nodes) == SelNode("selector", "", nodes)

PSEUDO_ELEMENTS ==
    {"before", "after", "first-line", "first-letter", "marker", "placeholder"}
PSEUDO_SELECTOR_LIST == {"not", "is", "has", "matches", "-webkit-any", "-moz-any", "any"}
ZERO_SPECIFICITY == {"where"}

\* node.value.replace(/^:+/, '').toLowerCase() for the pseudos of the model
PseudoName(v) ==
    CASE v = ":not" -> "not"
      [] v = ":is" -> "is"
      [] v = ":where" -> "where"
      [] v = ":has" -> "has"
      [] v = ":matches" -> "matches"
      [] v = ":hover" -> "hover"
      [] v = ":before" -> "before"
      [] v = "::before" -> "before"
      [] v = "::selection" -> "selection"
      [] OTHER -> v

StartsWithDoubleColon(v) == v \in {"::before", "::selection"}

\* the sentinel id count of an inline declaration
InlineIdCount == 1000

\* the selector texts of the model and what postcss-selector-parser makes of
\* them: the selectors of the root, or a parse error; "#i#i...#i" stands for
\* "#i" written InlineIdCount + 1 times
ParseSelector(text) ==
    CASE text = "div" -> [ok |-> TRUE, root |-> <<Selector(<<Tag("div")>>)>>]
      [] text = "span" -> [ok |-> TRUE, root |-> <<Selector(<<Tag("span")>>)>>]
      [] text = "*" -> [ok |-> TRUE, root |-> <<Selector(<<Universal>>)>>]
      [] text = ".c" -> [ok |-> TRUE, root |-> <<Selector(<<Class("c")>>)>>]
      [] text = ".d" -> [ok |-> TRUE, root |-> <<Selector(<<Class("d")>>)>>]
      [] text = "#i" -> [ok |-> TRUE, root |-> <<Selector(<<Id("i")>>)>>]
      [] text = ".c.d" ->
            [ok |-> TRUE, root |-> <<Selector(<<Class("c"), Class("d")>>)>>]
      [] text = "div span" ->
            [ok |-> TRUE,
             root |-> <<Selector(<<Tag("div"), Combinator(" "), Tag("span")>>)>>]
      [] text = "#i#i...#i" ->
            [ok |-> TRUE,
             root |-> <<Selector([k \in 1..(InlineIdCount + 1) |-> Id("i")])>>]
      [] OTHER -> [ok |-> FALSE, root |-> <<>>]

AddSpecificity(a, b) == <<a[1] + b[1], a[2] + b[2], a[3] + b[3]>>

CompareSpecificityBySum(a, b) == (a[1] + a[2] + a[3]) - (b[1] + b[2] + b[3])

CompareSpecificity(a, b) ==
    IF a[1] # b[1] THEN a[1] - b[1]
    ELSE IF a[2] # b[2] THEN a[2] - b[2]
    ELSE IF a[3] # b[3] THEN a[3] - b[3]
    ELSE 0

RECURSIVE CalcSelectorSpecificity(_)
RECURSIVE WalkNodes(_, _, _)
RECURSIVE NodeSpecificity(_)
RECURSIVE MaxOfSelectors(_, _)

\* let max = [0,0,0]; node.nodes.forEach(...) over the first k arguments
MaxOfSelectors(sels, k) ==
    IF k = 0 THEN <<0, 0, 0>>
    ELSE LET max == MaxOfSelectors(sels, k - 1)
         IN  IF sels[k].type # "selector" THEN max
             ELSE LET sp == CalcSelectorSpecificity(sels[k])
                  IN  IF CompareSpecificity(sp, max) > 0 THEN sp ELSE max

\* what the callback of sel.walk adds to spec for one node
NodeSpecificity(node) ==
    CASE node.type = "id" -> <<1, 0, 0>>
      [] node.type \in {"class", "attribute"} -> <<0, 1, 0>>
      [] node.type = "tag" -> IF node.value # "*" THEN <<0, 0, 1>> ELSE <<0, 0, 0>>
      [] node.type = "pseudo" ->
            IF PseudoName(node.value) \in ZERO_SPECIFICITY THEN <<0, 0, 0>>
            ELSE IF PseudoName(node.value) \in PSEUDO_SELECTOR_LIST
                    /\ Len(node.nodes) > 0
            THEN MaxOfSelectors(node.nodes, Len(node.nodes))
            ELSE IF StartsWithDoubleColon(node.value)
                    \/ PseudoName(node.value) \in PSEUDO_ELEMENTS
            THEN <<0, 0, 1>>
            ELSE <<0, 1, 0>>
      [] OTHER -> <<0, 0, 0>>

\* Container.walk over nodes[lo..hi]: the callback on every node and then,
\* as the callback never returns false, on every node below it
WalkNodes(nodes, lo, hi) ==
    IF lo > hi THEN <<0, 0, 0>>
    ELSE IF lo = hi
    THEN AddSpecificity(NodeSpecificity(nodes[lo]),
                        WalkNodes(nodes[lo].nodes, 1, Len(nodes[lo].nodes)))
    ELSE LET mid == (lo + hi) \div 2
         IN  AddSpecificity(WalkNodes(nodes, lo, mid), WalkNodes(nodes, mid + 1, hi))

CalcSelectorSpecificity(sel) == WalkNodes(sel.nodes, 1, Len(sel.nodes))

RECURSIVE MaxOfRoot(_, _)
MaxOfRoot(sels, k) ==
    IF k = 0 THEN <<0, 0, 0>>
    ELSE LET result == MaxOfRoot(sels, k - 1)
             sp == CalcSelectorSpecificity(sels[k])
         IN  IF CompareSpecificity(sp, result) > 0 THEN sp ELSE result

\* calculateSpecificity on what processSync makes of the selector text
SpecificityOfParsed(parsed) ==
    IF ~parsed.ok THEN <<0, 0, 0>> ELSE MaxOfRoot(parsed.root, Len(parsed.root))

CalculateSpecificity(text) == SpecificityOfParsed(ParseSelector(text))

-----------------------------------------------------------------------------
(* The document and doc.querySelectorAll *)

Element(tag, id, classes, parent, style) ==
    [tag |-> tag, id |-> id, classes |-> classes, parent |-> parent, style |-> style]

RECURSIVE Ancestors(_, _)
Ancestors(d, e) ==
    IF d[e].parent = 0 THEN {} ELSE {d[e].parent} \cup Ancestors(d, d[e].parent)

CompoundStart(nodes, k) ==
    LET combs == {i \in 1..k : nodes[i].type = "combinator"}
    IN  IF combs = {} THEN 1
        ELSE 1 + CHOOSE i \in combs : \A j \in combs : j <= i

RECURSIVE MatchesSelector(_, _, _, _)
RECURSIVE MatchesSimple(_, _, _)

MatchesSimple(d, e, node) ==
    CASE node.type = "tag" -> d[e].tag = node.value
      [] node.type = "id" -> d[e].id = node.value
      [] node.type = "class" -> node.value \in d[e].classes
      [] node.type = "universal" -> TRUE
      [] node.type = "pseudo" /\ PseudoName(node.value) \in {"is", "where", "matches"} ->
            \E i \in 1..Len(node.nodes) :
                MatchesSelector(d, e, node.nodes[i].nodes, Len(node.nodes[i].nodes))
      [] node.type = "pseudo" /\ PseudoName(node.value) = "not" ->
            ~\E i \in 1..Len(node.nodes) :
                MatchesSelector(d, e, node.nodes[i].nodes, Len(node.nodes[i].nodes))
      [] OTHER -> FALSE

\* element e matches the compound that ends at nodes[k] and, through the
\* combinator before it, the selector to its left
MatchesSelector(d, e, nodes, k) ==
    LET start == CompoundStart(nodes, k)
    IN  /\ \A i \in start..k : MatchesSimple(d, e, nodes[i])
        /\ (start > 1) =>
            IF nodes[start - 1].value = ">"
            THEN d[e].parent # 0 /\ MatchesSelector(d, d[e].parent, nodes, start - 2)
            ELSE \E a \in Ancestors(d, e) : MatchesSelector(d, a, nodes, start - 2)

\* doc.querySelectorAll(selector): it throws for a selector that is no
\* selector; otherwise the matching elements
QueryThrows(text) == ~ParseSelector(text).ok

QueryMatches(d, text, e) ==
    LET root == ParseSelector(text).root
    IN  \E i \in 1..Len(root) :
            MatchesSelector(d, e, root[i].nodes, Len(root[i].nodes))

-----------------------------------------------------------------------------
(* html-style-preprocessor: strings are sequences of tokens; a token is a  *)
(* word, or one of ":", ";", " " and "!important"                           *)

SUPPORTED_PROPERTIES ==
    {"color", "background", "background-color", "font-family", "font-size",
     "font-weight", "font-style", "text-decoration", "text-align",
     "vertical-align", "border", "border-top", "border-right", "border-bottom",
     "border-left", "padding", "padding-top", "padding-right", "padding-bottom",
     "padding-left", "line-height"}

\* String.prototype.toLowerCase on one token
Lower(t) ==
    CASE t = "COLOR" -> "color"
      [] t = "Margin" -> "margin"
      [] t = "!IMPORTANT" -> "!important"
      [] OTHER -> t

LowerAll(s) == [i \in 1..Len(s) |-> Lower(s[i])]

\* String.prototype.indexOf of one token, 0-based; -1 when absent
IndexOf(s, t) ==
    IF \E i \in 1..Len(s) : s[i] = t
    THEN (CHOOSE i \in 1..Len(s) : s[i] = t /\ \A j \in 1..(i - 1) : s[j] # t) - 1
    ELSE -1

\* String.prototype.split
RECURSIVE Split(_, _)
Split(s, sep) ==
    IF IndexOf(s, sep) = -1 THEN <<s>>
    ELSE <<SubSeq(s, 1, IndexOf(s, sep))>>
            \o Split(SubSeq(s, IndexOf(s, sep) + 2, Len(s)), sep)

\* attr.split(';').map((p) => p.trim()).filter(Boolean)
StyleParts(attr) ==
    SelectSeq([i \in 1..Len(Split(attr, ";")) |-> Trim(Split(attr, ";")[i])],
              LAMBDA part : part # <<>>)

EndsWithImportant(value) ==
    value # <<>> /\ Lower(value[Len(value)]) = "!important"

\* value.replace(/\s*!important\s*$/i, '') on a trimmed value that ends with it
StripImportant(value) == TrimEnd(SubSeq(value, 1, Len(value) - 1))

MapSet(map, key, meta) ==
    [x \in DOMAIN map \cup {key} |-> IF x = key THEN meta ELSE map[x]]

\* specificity: [1000, 0, 0] of an inline declaration
InlineSpecificity == <<InlineIdCount, 0, 0>>

\* the loop of readInlineStyles from part k on
RECURSIVE ReadParts(_, _, _, _)
ReadParts(parts, k, map, ord) ==
    IF k > Len(parts) THEN map
    ELSE LET part == parts[k]
             idx == IndexOf(part, ":")
             prop == LowerAll(Trim(SubSeq(part, 1, idx)))
             raw == Trim(SubSeq(part, idx + 2, Len(part)))
             important == EndsWithImportant(raw)
             value == IF important THEN StripImportant(raw) ELSE raw
         IN  IF idx = -1 \/ prop = <<>> \/ value = <<>>
             THEN ReadParts(parts, k + 1, map, ord)
             ELSE ReadParts(parts, k + 1,
                            MapSet(map, prop,
                                   [value |-> value, important |-> important,
                                    specificity |-> InlineSpecificity,
                                    order |-> ord]),
                            ord + 1)

ReadInlineStyles(el) == ReadParts(StyleParts(el.style), 1, <<>>, 0)

\* the rank of a property name in a.localeCompare(b) order, for the names of
\* the model
PropRank(prop) ==
    CASE prop = <<"background">> -> 1
      [] prop = <<"color">> -> 2
      [] prop = <<"margin">> -> 3
      [] prop = <<"padding">> -> 4
      [] OTHER -> 5

RECURSIVE SortedProps(_)
SortedProps(props) ==
    IF props = {} THEN <<>>
    ELSE LET first == CHOOSE x \in props : \A y \in props : PropRank(x) <= PropRank(y)
         IN  <<first>> \o SortedProps(props \ {first})

RECURSIVE Join(_, _)
Join(entries, sep) ==
    IF entries = <<>> THEN <<>>
    ELSE IF Len(entries) = 1 THEN entries[1]
    ELSE entries[1] \o sep \o Join(Tail(entries), sep)

\* writeInlineStyles: the new value of the style attribute
WriteInlineStyles(el, map) ==
    LET props == SortedProps(DOMAIN map)
        entries == [i \in 1..Len(props) |->
                        props[i] \o <<":", " ">> \o map[props[i]].value
                            \o (IF map[props[i]].important
                                THEN <<" ", "!important">> ELSE <<>>)]
    IN  IF Len(entries) = 0 THEN el
        ELSE [el EXCEPT !.style = Join(entries, <<";", " ">>)]

CompareDecl(a, b) ==
    IF a.important # b.important THEN (IF a.important THEN 1 ELSE -1)
    ELSE LET spec == CompareSpecificity(a.specificity, b.specificity)
         IN  IF spec # 0 THEN spec ELSE a.order - b.order

\* the nodes of the stylesheet as postcss parses them
RuleNode(selectors, nodes) ==
    [type |-> "rule", selectors |-> selectors, prop |-> "", value |-> <<>>,
     important |-> FALSE, nodes |-> nodes]
DeclNode(prop, value, important) ==
    [type |-> "decl", selectors |-> <<>>, prop |-> prop, value |-> value,
     important |-> important, nodes |-> <<>>]
AtRuleNode(nodes) ==
    [type |-> "atrule", selectors |-> <<>>, prop |-> "", value |-> <<>>,
     important |-> FALSE, nodes |-> nodes]

\* css text that is no stylesheet, such as "a {": a block that is never closed
UnclosedBlock ==
    [type |-> "unclosed", selectors |-> <<>>, prop |-> "", value |-> <<>>,
     important |-> FALSE, nodes |-> <<>>]

\* postcss.parse(cssText) throws a CssSyntaxError
PostcssParseThrows(nodes) == \E i \in 1..Len(nodes) : nodes[i].type = "unclosed"

\* root.walkRules: every rule below the nodes, in document order, with the
\* type of its parent
RECURSIVE WalkRules(_, _)
WalkRules(nodes, parentType) ==
    Flatten([i \in 1..Len(nodes) |->
        (IF nodes[i].type = "rule"
         THEN <<[rule |-> nodes[i], parent |-> parentType]>> ELSE <<>>)
            \o WalkRules(nodes[i].nodes, nodes[i].type)])

\* rule.walkDecls: every declaration below the rule, in document order
RECURSIVE WalkDecls(_)
WalkDecls(nodes) ==
    Flatten([i \in 1..Len(nodes) |->
        (IF nodes[i].type = "decl" THEN <<nodes[i]>> ELSE <<>>)
            \o WalkDecls(nodes[i].nodes)])

\* the specificity elementSpecificity holds for element e after the first k
\* selectors of the rule; NoSpecificity when none of them matched it
NoSpecificity == <<-1, -1, -1>>

RECURSIVE ElementSpecificity(_, _, _, _, _)
ElementSpecificity(d, selectors, specs, k, e) ==
    IF k = 0 THEN NoSpecificity
    ELSE LET existing == ElementSpecificity(d, selectors, specs, k - 1, e)
             specificity == specs[k]
         IN  IF QueryThrows(selectors[k]) \/ ~QueryMatches(d, selectors[k], e)
             THEN existing
             ELSE IF existing = NoSpecificity
                     \/ CompareSpecificity(specificity, existing) > 0
             THEN specificity ELSE existing

DeclOrderPerRule(ord, i) == i - 1

\* order: order++ for declaration i (from 1) of a rule entered at order ord
DeclOrder(ord, i) == ord + i - 1

\* the inner loop of applyCss for one element: declarations k.. of the rule
RECURSIVE ApplyDecls(_, _, _, _, _)
ApplyDecls(current, decls, k, specificity, ord) ==
    IF k > Len(decls) THEN current
    ELSE LET prop == <<Lower(decls[k].prop)>>
             next == [value |-> decls[k].value, important |-> decls[k].important,
                      specificity |-> specificity, order |-> DeclOrder(ord, k)]
         IN  ApplyDecls(
                IF prop \notin DOMAIN current \/ CompareDecl(next, current[prop]) > 0
                THEN MapSet(current, prop, next) ELSE current,
                decls, k + 1, specificity, ord)

\* the callback of root.walkRules for one rule: the new state and order
ApplyRule(d, st, ord, item) ==
    LET rule == item.rule
        specs == [k \in 1..Len(rule.selectors) |->
                    CalculateSpecificity(rule.selectors[k])]
        elementSpecificity ==
            [e \in 1..Len(d) |->
                ElementSpecificity(d, rule.selectors, specs, Len(rule.selectors), e)]
        matched == {e \in 1..Len(d) : elementSpecificity[e] # NoSpecificity}
        decls == SelectSeq(WalkDecls(rule.nodes),
                           LAMBDA n : Lower(n.prop) \in SUPPORTED_PROPERTIES)
        GetState(e) == IF e \in DOMAIN st THEN st[e] ELSE ReadInlineStyles(d[e])
    IN  IF item.parent = "atrule" \/ matched = {} THEN [state |-> st, order |-> ord]
        ELSE IF Len(decls) = 0
        THEN [state |-> st, order |-> DeclOrder(ord, Len(decls) + 1)]
        ELSE [state |->
                [e \in DOMAIN st \cup matched |->
                    IF e \in matched
                    THEN ApplyDecls(GetState(e), decls, 1, elementSpecificity[e], ord)
                    ELSE st[e]],
              order |-> DeclOrder(ord, Len(decls) + 1)]

-----------------------------------------------------------------------------
(* The documents and stylesheets of the model *)

\* the style attributes of the first element
InlineStyles ==
    { <<>>,
      <<"color", ":", "in1">>,
      <<"COLOR", ":", " ", "in1", " ", "!IMPORTANT">>,
      <<"color", ":", " ", "in1", " ", "!important", ";", " ",
        "color", ":", " ", "in2">>,
      <<"margin", ":", "in1", ";", "color", ":", "in2", ";">> }

\* <div id="i" class="c d" style="..."><span class="c"></span></div>
Elements(style) ==
    << Element("div", "i", {"c", "d"}, 0, style),
       Element("span", "", {"c"}, 1, <<>>) >>

SelectorLists ==
    { <<"div">>, <<".c">>, <<"#i">>, <<".c.d">>, <<".c", "#i">>, <<"div span">>,
      <<"#i#i...#i">> }

DeclLists ==
    { << [prop |-> "color", important |-> FALSE] >>,
      << [prop |-> "color", important |-> TRUE] >>,
      << [prop |-> "margin", important |-> FALSE],
         [prop |-> "color", important |-> FALSE] >>,
      << [prop |-> "color", important |-> TRUE],
         [prop |-> "color", important |-> FALSE] >> }

\* the value of declaration j of rule i: every declaration of a stylesheet
\* carries a value of its own
ValueToken(i, j) ==
    << <<"v11", "v12">>, <<"v21", "v22">>, <<"v31", "v32">>, <<"v41", "v42">> >>[i][j]

BuildRule(i, shape) ==
    RuleNode(shape.selectors,
             [j \in 1..Len(shape.decls) |->
                DeclNode(shape.decls[j].prop, <<ValueToken(i, j)>>,
                         shape.decls[j].important)])

\* the html given: its elements and the rules of its two <style> blocks
InitCss ==
    /\ \E style \in InlineStyles, n \in 0..MaxRules :
         \E shapes \in [1..n -> [selectors : SelectorLists, decls : DeclLists]],
            cut \in {c \in 0..n : c >= n - 1} :
            LET rules == [i \in 1..n |-> BuildRule(i, shapes[i])]
            IN  html = [elements |-> Elements(style),
                        styles |-> <<SubSeq(rules, 1, cut), SubSeq(rules, cut + 1, n)>>]
    /\ doc = <<>>
    /\ sheet = <<>>
    /\ cpc = "start"
    /\ ruleIndex = 0
    /\ order = 0
    /\ state = <<>>
    /\ table = Elem("table", <<>>)
    /\ env = Browser
    /\ pc = "off"
    /\ rows = <<>>
    /\ rowGroupEnds = <<>>
    /\ maxColumns = 0
    /\ r = 0
    /\ spanTracker = <<>>
    /\ grid = <<>>
    /\ placed = <<>>
    /\ rowCount = 0
    /\ colCount = 0
    /\ SpecificityIdle
    /\ FallbackIdle
    /\ BuilderIdle
    /\ EditableIdle

\* preprocessHtmlForDocx up to the walk of applyCss: the document is parsed,
\* the style nodes are taken out of it and their text is parsed as one sheet
BeginApplyCss ==
    /\ cpc = "start"
    /\ Flatten(html.styles) # <<>>
    /\ ~PostcssParseThrows(Flatten(html.styles))
    /\ doc' = html.elements
    /\ sheet' = Flatten(html.styles)
    /\ order' = 0
    /\ state' = <<>>
    /\ ruleIndex' = 0
    /\ cpc' = "walk"
    /\ UNCHANGED html
    /\ UNCHANGED tvars
    /\ UNCHANGED evars
    /\ UNCHANGED ovars

\* preprocessHtmlForDocx when cssText.trim() is empty
SkipApplyCss ==
    /\ cpc = "start"
    /\ Flatten(html.styles) = <<>>
    /\ doc' = html.elements
    /\ cpc' = "done"
    /\ UNCHANGED <<html, sheet, ruleIndex, order, state>>
    /\ UNCHANGED tvars
    /\ UNCHANGED evars
    /\ UNCHANGED ovars

\* one call of the callback of root.walkRules
WalkRule ==
    /\ cpc = "walk"
    /\ ruleIndex < Len(WalkRules(sheet, "root"))
    /\ LET res == ApplyRule(doc, state, order, WalkRules(sheet, "root")[ruleIndex + 1])
       IN  /\ state' = res.state
           /\ order' = res.order
    /\ ruleIndex' = ruleIndex + 1
    /\ UNCHANGED <<html, doc, sheet, cpc>>
    /\ UNCHANGED tvars
    /\ UNCHANGED evars
    /\ UNCHANGED ovars

\* for (const [el, current] of state) writeInlineStyles(el, current), then
\* return doc.body.innerHTML
WriteStyles ==
    /\ cpc = "walk"
    /\ ruleIndex >= Len(WalkRules(sheet, "root"))
    /\ doc' = [e \in 1..Len(doc) |->
                IF e \in DOMAIN state THEN WriteInlineStyles(doc[e], state[e])
                ELSE doc[e]]
    /\ cpc' = "done"
    /\ UNCHANGED <<html, sheet, ruleIndex, order, state>>
    /\ UNCHANGED tvars
    /\ UNCHANGED evars
    /\ UNCHANGED ovars

NextCss == BeginApplyCss \/ SkipApplyCss \/ WalkRule \/ WriteStyles

SpecCss == InitCss /\ [][NextCss]_vars

-----------------------------------------------------------------------------
(* Properties of the resolved styles *)

Props == {<<"color">>, <<"margin">>}

\* a is greater than b in the lexicographic order of triples
LexGreater(a, b) ==
    \/ a[1] > b[1]
    \/ a[1] = b[1] /\ a[2] > b[2]
    \/ a[1] = b[1] /\ a[2] = b[2] /\ a[3] > b[3]

\* the rules of the <style> blocks of the html given, in document order
GivenRules == WalkRules(Flatten(html.styles), "root")

\* the specificities of the selectors of the list that match element e
MatchedSpecificities(selectors, e) ==
    {CalculateSpecificity(selectors[k]) :
        k \in {x \in 1..Len(selectors) :
                ~QueryThrows(selectors[x])
                    /\ QueryMatches(html.elements, selectors[x], e)}}

Greatest(S) == CHOOSE a \in S : \A b \in S : ~LexGreater(b, a)

\* the declarations of property prop that the stylesheet holds for element e:
\* those of the rules outside at-rules with a selector that matches e
SheetCandidates(e, prop) ==
    LET Of(k) ==
            LET decls == WalkDecls(GivenRules[k].rule.nodes)
                js == {x \in 1..Len(decls) :
                        /\ <<Lower(decls[x].prop)>> = prop
                        /\ Lower(decls[x].prop) \in SUPPORTED_PROPERTIES}
                matched == MatchedSpecificities(GivenRules[k].rule.selectors, e)
            IN  IF GivenRules[k].parent = "atrule" \/ js = {} THEN {}
                ELSE IF matched = {} THEN {}
                ELSE LET specificity == Greatest(matched)
                     IN  {[rule |-> k, decl |-> j, value |-> decls[j].value,
                           important |-> decls[j].important,
                           specificity |-> specificity] : j \in js}
    IN  UNION {Of(k) : k \in 1..Len(GivenRules)}

\* declaration a stands before declaration b in the stylesheet
Before(a, b) == a.rule < b.rule \/ (a.rule = b.rule /\ a.decl < b.decl)

\* the declarations of property prop in the style attribute element e came with
InlineDeclarations(e, prop) ==
    LET parts == StyleParts(html.elements[e].style)
        Name(k) == LowerAll(Trim(SubSeq(parts[k], 1, IndexOf(parts[k], ":"))))
        Raw(k) == Trim(SubSeq(parts[k], IndexOf(parts[k], ":") + 2, Len(parts[k])))
    IN  {[part |-> k,
          value |-> IF EndsWithImportant(Raw(k)) THEN StripImportant(Raw(k)) ELSE Raw(k),
          important |-> EndsWithImportant(Raw(k))] :
            k \in {x \in 1..Len(parts) :
                    IndexOf(parts[x], ":") # -1 /\ Name(x) = prop /\ Raw(x) # <<>>}}

\* the declarations the style attribute of element e holds in the result
Resolved(e) == ReadInlineStyles(doc[e])

Has(e, prop) == prop \in DOMAIN Resolved(e)

\* the number of whitelisted declarations in the first k rules that stand
\* outside at-rules and match an element
Encountered(k) ==
    LET Count(i) ==
            IF GivenRules[i].parent = "atrule"
                \/ \A e \in 1..Len(html.elements) :
                        MatchedSpecificities(GivenRules[i].rule.selectors, e) = {}
            THEN 0
            ELSE Len(SelectSeq(WalkDecls(GivenRules[i].rule.nodes),
                               LAMBDA n : Lower(n.prop) \in SUPPORTED_PROPERTIES))
    IN  SumTo([i \in 1..k |-> Count(i)], k)

\* C7: for one (element, property) pair an !important declaration always wins
\* over a non-important one, whatever their origin, specificity and source
\* order: when any declaration the element has for the property, in its style
\* attribute or in a matching rule, is !important, the resolved declaration is
\* one of the !important ones.
C7_ImportantAlwaysWins ==
    cpc = "done" =>
        \A e \in DOMAIN state, prop \in Props :
            LET cands == {[value |-> c.value, important |-> c.important] :
                            c \in InlineDeclarations(e, prop)}
                         \cup {[value |-> c.value, important |-> c.important] :
                                c \in SheetCandidates(e, prop)}
            IN  (\E c \in cands : c.important) =>
                    /\ Has(e, prop)
                    /\ Resolved(e)[prop].important
                    /\ \E c \in cands :
                        c.important /\ c.value = Resolved(e)[prop].value

C9_HigherSpecificityWins ==
    /\ CompareSpecificity(CalculateSpecificity("#i"), CalculateSpecificity(".c")) > 0
    /\ CompareSpecificity(CalculateSpecificity(".c"), CalculateSpecificity("div")) > 0
    /\ cpc = "done" =>
        \A e \in 1..Len(doc), prop \in Props :
            LET cands == SheetCandidates(e, prop)
            IN  \A a \in cands, b \in cands :
                    /\ (CompareSpecificity(a.specificity, b.specificity) > 0)
                            = LexGreater(a.specificity, b.specificity)
                    /\ (a.important = b.important
                            /\ LexGreater(a.specificity, b.specificity)) =>
                        Has(e, prop) /\ Resolved(e)[prop].value # b.value

\* a rule with the more specific selector stands first and a later rule of
\* the same importance does not take the property from it
C9_Witness ==
    /\ cpc = "done"
    /\ \E e \in 1..Len(doc), prop \in Props :
        LET cands == SheetCandidates(e, prop)
        IN  \E a \in cands, b \in cands :
                /\ a.rule < b.rule
                /\ a.important = b.important
                /\ LexGreater(a.specificity, b.specificity)
                /\ a.specificity[1] = 0
                /\ Has(e, prop)
                /\ Resolved(e)[prop].value = a.value

\* C10: of two stylesheet declarations of one property that match the same
\* element with equal importance and equal specificity the earlier one is
\* never the resolved one; the counter order counts the declarations over all
\* rules and style blocks and is not reset per rule.
C10_LaterSourceOrderWins ==
    /\ cpc \in {"walk", "done"} => order = Encountered(ruleIndex)
    /\ cpc = "done" =>
        \A e \in 1..Len(doc), prop \in Props :
            LET cands == SheetCandidates(e, prop)
            IN  \A a \in cands, b \in cands :
                    (a.important = b.important
                        /\ a.specificity = b.specificity
                        /\ Before(a, b)) =>
                        Has(e, prop) /\ Resolved(e)[prop].value # a.value

\* two rules of equal specificity in two style blocks: the later one wins
C10_Witness ==
    /\ cpc = "done"
    /\ order > 1
    /\ \E e \in 1..Len(doc), prop \in Props :
        LET cands == SheetCandidates(e, prop)
        IN  \E a \in cands, b \in cands :
                /\ a.rule <= Len(html.styles[1])
                /\ b.rule > Len(html.styles[1])
                /\ a.important = b.important
                /\ a.specificity = b.specificity
                /\ Has(e, prop)
                /\ Resolved(e)[prop].value = b.value

\* C13: only whitelisted properties are written back: the style attribute
\* that writeInlineStyles sets on an element holds no property outside
\* SUPPORTED_PROPERTIES, whether the declaration came from the stylesheet or
\* from the style attribute the element already had.
C13_OnlyWhitelistedWritten ==
    cpc = "done" =>
        \A e \in DOMAIN state :
            \A prop \in DOMAIN Resolved(e) :
                Len(prop) = 1 /\ prop[1] \in SUPPORTED_PROPERTIES

-----------------------------------------------------------------------------
(* calculateSpecificity on its own *)

MaxArgs == 2

\* the other components are not running
TableIdle ==
    /\ table = Elem("table", <<>>)
    /\ env = Browser
    /\ pc = "off"
    /\ rows = <<>>
    /\ rowGroupEnds = <<>>
    /\ maxColumns = 0
    /\ r = 0
    /\ spanTracker = <<>>
    /\ grid = <<>>
    /\ placed = <<>>
    /\ rowCount = 0
    /\ colCount = 0

CssIdle ==
    /\ html = <<>>
    /\ doc = <<>>
    /\ sheet = <<>>
    /\ cpc = "off"
    /\ ruleIndex = 0
    /\ order = 0
    /\ state = <<>>

\* the simple selectors of the model: div, #a, .c, *, :hover, ::before
LeafNodes ==
    {Tag("div"), Id("a"), Class("c"), Universal, Pseudo(":hover", <<>>),
     Pseudo("::before", <<>>)}

\* the selectors written as arguments of a pseudo-class: #a, .c, div, .a #b,
\* :where(#a), :is(#a)
ArgSelectors ==
    {Selector(<<Id("a")>>), Selector(<<Class("c")>>), Selector(<<Tag("div")>>),
     Selector(<<Class("a"), Combinator(" "), Id("b")>>),
     Selector(<<Pseudo(":where", <<Selector(<<Id("a")>>)>>)>>),
     Selector(<<Pseudo(":is", <<Selector(<<Id("a")>>)>>)>>)}

FunctionalNames == {":where", ":not", ":is", ":has", ":matches"}

\* :name(arg) and :name(arg, arg)
FunctionalNodes ==
    {Pseudo(f, args) :
        f \in FunctionalNames,
        args \in UNION {[1..n -> ArgSelectors] : n \in 1..MaxArgs}}

\* what postcss-selector-parser makes of the selector texts of the model: one
\* compound of one or two simple selectors, a list of two of them, or a
\* syntax error
ParsedSelectors ==
    {[ok |-> TRUE, root |-> <<Selector(<<n>>)>>] : n \in LeafNodes \cup FunctionalNodes}
    \cup {[ok |-> TRUE, root |-> <<Selector(<<l, n>>)>>] :
            l \in {Tag("div"), Class("c")}, n \in FunctionalNodes}
    \cup {[ok |-> TRUE, root |-> <<Selector(<<l>>), Selector(<<n>>)>>] :
            l \in LeafNodes, n \in LeafNodes}
    \cup {[ok |-> FALSE, root |-> <<>>]}

InitSpecificity ==
    /\ selInput \in ParsedSelectors
    /\ selResult = <<0, 0, 0>>
    /\ spc = "start"
    /\ TableIdle
    /\ CssIdle
    /\ FallbackIdle
    /\ BuilderIdle
    /\ EditableIdle

\* calculateSpecificity when processSync returns
SpecificityReturns ==
    /\ spc = "start"
    /\ selInput.ok
    /\ selResult' = SpecificityOfParsed(selInput)
    /\ spc' = "done"
    /\ UNCHANGED <<selInput, rawHtml, stripped, fpc, model, docx, brow, bpc>>
    /\ UNCHANGED tvars
    /\ UNCHANGED evars
    /\ UNCHANGED cvars

\* calculateSpecificity when processSync throws: catch { return [0, 0, 0] }
SpecificityCatches ==
    /\ spc = "start"
    /\ ~selInput.ok
    /\ selResult' = SpecificityOfParsed(selInput)
    /\ spc' = "done"
    /\ UNCHANGED <<selInput, rawHtml, stripped, fpc, model, docx, brow, bpc>>
    /\ UNCHANGED tvars
    /\ UNCHANGED evars
    /\ UNCHANGED cvars

NextSpecificity == SpecificityReturns \/ SpecificityCatches

SpecSpecificity == InitSpecificity /\ [][NextSpecificity]_vars

IsPseudoNamed(node, names) ==
    node.type = "pseudo" /\ PseudoName(node.value) \in names

\* the specificity the selector rules give: every simple selector counted
\* once, :where(...) nothing, a pseudo-class with a selector list the greatest
\* specificity among its arguments and nothing for itself or for what is
\* written inside the arguments
RECURSIVE RuleSpecificity(_, _)
RECURSIVE RuleMaxOfArguments(_, _)
RuleSpecificity(nodes, k) ==
    IF k = 0 THEN <<0, 0, 0>>
    ELSE LET node == nodes[k]
             own == IF IsPseudoNamed(node, ZERO_SPECIFICITY) THEN <<0, 0, 0>>
                    ELSE IF IsPseudoNamed(node, PSEUDO_SELECTOR_LIST)
                    THEN RuleMaxOfArguments(node.nodes, Len(node.nodes))
                    ELSE NodeSpecificity(node)
         IN  AddSpecificity(RuleSpecificity(nodes, k - 1), own)

RuleMaxOfArguments(sels, k) ==
    IF k = 0 THEN <<0, 0, 0>>
    ELSE LET max == RuleMaxOfArguments(sels, k - 1)
             sp == RuleSpecificity(sels[k].nodes, Len(sels[k].nodes))
         IN  IF LexGreater(sp, max) THEN sp ELSE max

\* the selector given is one compound that ends in a pseudo-class of the names
EndsInPseudo(names) ==
    /\ selInput.ok
    /\ Len(selInput.root) = 1
    /\ LET nodes == selInput.root[1].nodes
       IN  IsPseudoNamed(nodes[Len(nodes)], names)

\* the specificity of what stands before the last node of the compound
BeforeLast ==
    LET nodes == selInput.root[1].nodes
    IN  RuleSpecificity(nodes, Len(nodes) - 1)

\* C11: :where(...) has zero specificity whatever its arguments: a selector
\* that ends in :where(...) has the specificity of what stands before it, and
\* :where(#a) alone gives [0,0,0].
C11_WhereIsZero ==
    (spc = "done" /\ EndsInPseudo(ZERO_SPECIFICITY)) =>
        /\ selResult = BeforeLast
        /\ selInput.root = <<Selector(<<Pseudo(":where", <<Selector(<<Id("a")>>)>>)>>)>>
            => selResult = <<0, 0, 0>>

\* C12: :not(), :is(), :has() and :matches() add exactly the greatest
\* specificity among their argument selectors and nothing else: a selector that
\* ends in one of them has the specificity of what stands before it plus that
\* maximum, and :not(.a #b) alone gives [1,1,0].
C12_ListPseudoAddsMax ==
    (spc = "done" /\ EndsInPseudo({"not", "is", "has", "matches"})) =>
        LET last == selInput.root[1].nodes[Len(selInput.root[1].nodes)]
        IN  /\ selResult
                = AddSpecificity(BeforeLast,
                                 RuleMaxOfArguments(last.nodes, Len(last.nodes)))
            /\ selInput.root
                    = <<Selector(<<Pseudo(":not",
                            <<Selector(<<Class("a"), Combinator(" "), Id("b")>>)>>)>>)>>
                => selResult = <<1, 1, 0>>

-----------------------------------------------------------------------------
(* preprocessHtmlForDocx without a DOMParser: the html as characters *)

MaxPieces == 5
MaxPasses == 2

UpperLetters ==
    <<"A", "B", "C", "D", "E", "F", "G", "H", "I", "J", "K", "L", "M">>
        \o <<"N", "O", "P", "Q", "R", "S", "T", "U", "V", "W", "X", "Y", "Z">>
LowerLetters ==
    <<"a", "b", "c", "d", "e", "f", "g", "h", "i", "j", "k", "l", "m">>
        \o <<"n", "o", "p", "q", "r", "s", "t", "u", "v", "w", "x", "y", "z">>

\* String.prototype.toLowerCase on one character, also the /i flag
LowerChar(c) ==
    IF \E k \in 1..Len(UpperLetters) : UpperLetters[k] = c
    THEN LowerLetters[CHOOSE k \in 1..Len(UpperLetters) : UpperLetters[k] = c]
    ELSE c

\* String.prototype.toUpperCase on one character
UpperChar(c) ==
    IF \E k \in 1..Len(LowerLetters) : LowerLetters[k] = c
    THEN UpperLetters[CHOOSE k \in 1..Len(LowerLetters) : LowerLetters[k] = c]
    ELSE c

\* the characters of word stand at position p of s, letter case aside
MatchAt(s, p, word) ==
    /\ p >= 1
    /\ p + Len(word) - 1 <= Len(s)
    /\ \A k \in 1..Len(word) : LowerChar(s[p + k - 1]) = word[k]

\* the least position from `from` on where word stands, or 0
FirstAt(s, from, word) ==
    LET found == {p \in from..Len(s) : MatchAt(s, p, word)}
    IN  IF found = {} THEN 0 ELSE CHOOSE p \in found : \A q \in found : p <= q

OpenWord == <<"<", "s", "t", "y", "l", "e">>
CloseWord == <<"<", "/", "s", "t", "y", "l", "e", ">">>

\* the end of the match of /<style[\s\S]*?>[\s\S]*?<\/style>/i that begins at
\* p, or 0: both quantifiers are lazy, so the match runs to the first ">"
\* after "<style" and from there to the first "</style>"
MatchEnd(s, p) ==
    IF ~MatchAt(s, p, OpenWord) THEN 0
    ELSE LET gt == FirstAt(s, p + Len(OpenWord), <<">">>)
         IN  IF gt = 0 THEN 0
             ELSE LET close == FirstAt(s, gt + 1, CloseWord)
                  IN  IF close = 0 THEN 0 ELSE close + Len(CloseWord) - 1

\* html.replace(/<style[\s\S]*?>[\s\S]*?<\/style>/gi, '') from position p on:
\* one scan from left to right, what a removal leaves is not scanned again
RECURSIVE ReplaceStyle(_, _)
ReplaceStyle(s, p) ==
    IF p > Len(s) THEN <<>>
    ELSE IF MatchEnd(s, p) # 0 THEN ReplaceStyle(s, MatchEnd(s, p) + 1)
    ELSE <<s[p]>> \o ReplaceStyle(s, p + 1)

\* preprocessHtmlForDocx(html) where typeof DOMParser === 'undefined'
PreprocessFallback(h) == IF h = <<>> THEN <<>> ELSE ReplaceStyle(h, 1)

\* the pieces the html of the model is written with
HtmlPieces ==
    {<<"<", "s", "t", "y", "l", "e", ">">>,
     <<"<", "/", "s", "t", "y", "l", "e", ">">>,
     <<"p", "{", "}">>,
     <<"<", "p", ">">>,
     <<"<", "s", "t", "y">>,
     <<"l", "e", ">">>,
     <<"<", "S", "T", "Y", "L", "E", ">">>,
     <<"<", "/", "s", "t", "y", "l", "e", " ", ">">>}

\* the html given: up to MaxPieces pieces one after the other
InitFallback ==
    /\ \E n \in 0..MaxPieces :
        \E pieces \in [1..n -> HtmlPieces] : rawHtml = Flatten(pieces)
    /\ stripped = <<>>
    /\ fpc = "start"
    /\ TableIdle
    /\ CssIdle
    /\ SpecificityIdle
    /\ BuilderIdle
    /\ EditableIdle

\* the argument of the next call: the html given, then what the call before
\* returned
NextArgument == IF stripped = <<>> THEN rawHtml ELSE stripped[Len(stripped)]

\* if (!html) return ''
FallbackReturnsEmpty ==
    /\ fpc \in {"start", "returned"}
    /\ Len(stripped) < MaxPasses
    /\ NextArgument = <<>>
    /\ stripped' = Append(stripped, PreprocessFallback(NextArgument))
    /\ fpc' = "returned"
    /\ UNCHANGED <<rawHtml, selInput, selResult, spc, model, docx, brow, bpc>>
    /\ UNCHANGED tvars
    /\ UNCHANGED evars
    /\ UNCHANGED cvars

\* return html.replace(...)
FallbackStrips ==
    /\ fpc \in {"start", "returned"}
    /\ Len(stripped) < MaxPasses
    /\ NextArgument # <<>>
    /\ stripped' = Append(stripped, PreprocessFallback(NextArgument))
    /\ fpc' = "returned"
    /\ UNCHANGED <<rawHtml, selInput, selResult, spc, model, docx, brow, bpc>>
    /\ UNCHANGED tvars
    /\ UNCHANGED evars
    /\ UNCHANGED cvars

NextFallback == FallbackReturnsEmpty \/ FallbackStrips

SpecFallback == InitFallback /\ [][NextFallback]_vars

\* a style element as an HTML parser reads it stands in s: a start tag
\* "<style" that is closed by ">", and after it an end tag "</style", spaces
\* allowed before its ">"
ContainsStyleBlock(s) ==
    \E p \in 1..Len(s) :
        /\ MatchAt(s, p, OpenWord)
        /\ p + Len(OpenWord) <= Len(s)
        /\ s[p + Len(OpenWord)] \in {">", " "}
        /\ LET gt == FirstAt(s, p + Len(OpenWord), <<">">>)
           IN  /\ gt # 0
               /\ \E c \in (gt + 1)..Len(s) :
                    /\ MatchAt(s, c, <<"<", "/", "s", "t", "y", "l", "e">>)
                    /\ LET end == FirstAt(s, c + 7, <<">">>)
                       IN  end # 0 /\ \A k \in (c + 7)..(end - 1) : s[k] = " "

\* C14: preprocessHtmlForDocx is idempotent: a second call on what the first
\* call returned returns the same html.
C14_Idempotent ==
    Len(stripped) >= 2 => stripped[2] = stripped[1]

\* C15: the html that preprocessHtmlForDocx returns contains no <style> block,
\* here on the path without a DOMParser.
C15_NoStyleBlockLeft ==
    Len(stripped) >= 1 => ~ContainsStyleBlock(stripped[1])

-----------------------------------------------------------------------------
(* preprocessHtmlForDocx on selectors and css text that are not valid *)

\* selector lists with a selector that is no selector: "div >"
FailingSelectorLists == { <<"div">>, <<"#i">>, <<"div >">>, <<"div >", ".c">> }

\* the html given: its elements and the rules of its <style> block, with or
\* without an unclosed block after them
InitCssErr ==
    /\ \E style \in {<<>>, <<"color", ":", "in1">>}, n \in 0..MaxRules,
          unclosed \in BOOLEAN :
         \E shapes \in [1..n -> [selectors : FailingSelectorLists,
                                 decls : {<< [prop |-> "color", important |-> FALSE] >>,
                                          << [prop |-> "color", important |-> TRUE] >>}]] :
            html = [elements |-> Elements(style),
                    styles |-> << [i \in 1..n |-> BuildRule(i, shapes[i])]
                                    \o (IF unclosed THEN <<UnclosedBlock>> ELSE <<>>) >>]
    /\ doc = <<>>
    /\ sheet = <<>>
    /\ cpc = "start"
    /\ ruleIndex = 0
    /\ order = 0
    /\ state = <<>>
    /\ TableIdle
    /\ SpecificityIdle
    /\ FallbackIdle
    /\ BuilderIdle
    /\ EditableIdle

\* applyCss when postcss.parse(cssText) throws: no try encloses the call, the
\* error leaves applyCss and preprocessHtmlForDocx
ApplyCssThrows ==
    /\ cpc = "start"
    /\ Flatten(html.styles) # <<>>
    /\ PostcssParseThrows(Flatten(html.styles))
    /\ doc' = html.elements
    /\ cpc' = "thrown"
    /\ UNCHANGED <<html, sheet, ruleIndex, order, state>>
    /\ UNCHANGED tvars
    /\ UNCHANGED evars
    /\ UNCHANGED ovars

NextCssErr == NextCss \/ ApplyCssThrows

SpecCssErr == InitCssErr /\ [][NextCssErr]_vars

\* the rule without the selectors that are no selectors
WithoutFailingSelectors(item) ==
    [item EXCEPT !.rule.selectors = SelectSeq(@, LAMBDA t : ~QueryThrows(t))]

\* the state of applyCss after the first k of the rules
RECURSIVE StateAfterRules(_, _, _)
StateAfterRules(d, rules, k) ==
    IF k = 0 THEN [state |-> <<>>, order |-> 0]
    ELSE LET before == StateAfterRules(d, rules, k - 1)
         IN  ApplyRule(d, before.state, before.order, rules[k])

\* C16: preprocessHtmlForDocx never raises: a selector that fails is skipped
\* while the other selectors and rules are applied, so the styles resolved are
\* those of the same stylesheet without the failing selectors; and css text
\* that is not valid css also ends in a returned string, not in an error.
C16_NeverRaises ==
    /\ cpc # "thrown"
    /\ cpc = "done" /\ sheet # <<>> =>
        LET rules == WalkRules(sheet, "root")
            kept == [k \in 1..Len(rules) |-> WithoutFailingSelectors(rules[k])]
        IN  state = StateAfterRules(html.elements, kept, Len(kept)).state

-----------------------------------------------------------------------------
(* docx-table-from-dom: colours are strings of characters *)

Digits == <<"0", "1", "2", "3", "4", "5", "6", "7", "8", "9">>
HexDigits == <<"0", "1", "2", "3", "4", "5", "6", "7", "8", "9", "a", "b", "c", "d", "e", "f">>

IsDigit(c) == \E k \in 1..Len(Digits) : Digits[k] = c
DigitValue(c) == (CHOOSE k \in 1..Len(Digits) : Digits[k] = c) - 1

\* the length of the run of digits of s that begins at position p
RECURSIVE DigitRun(_, _)
DigitRun(s, p) == IF p <= Len(s) /\ IsDigit(s[p]) THEN 1 + DigitRun(s, p + 1) ELSE 0

\* the number written by the digits s[p..q]
RECURSIVE DigitsValue(_, _, _)
DigitsValue(s, p, q) ==
    IF q < p THEN 0 ELSE 10 * DigitsValue(s, p, q - 1) + DigitValue(s[q])

\* the position after an optional sign at the head of s
AfterSign(s) == IF s # <<>> /\ s[1] \in {"+", "-"} THEN 2 ELSE 1

\* Number.parseInt(raw, 10): white space, a sign, then digits as far as they
\* go; NaN without a digit
ParseInt(raw) ==
    LET s == TrimStart(raw)
        p == AfterSign(s)
        n == DigitRun(s, p)
        v == DigitsValue(s, p, p + n - 1)
    IN  [finite |-> n > 0, value |-> IF s # <<>> /\ s[1] = "-" THEN -v ELSE v]

\* Number.parseFloat(raw), for text without an exponent: whether it is finite
\* and whether it is at most 0
ParseFloat(raw) ==
    LET s == TrimStart(raw)
        p == AfterSign(s)
        n == DigitRun(s, p)
        dot == p + n <= Len(s) /\ s[p + n] = "."
        m == IF dot THEN DigitRun(s, p + n + 1) ELSE 0
        zero == DigitsValue(s, p, p + n - 1) = 0
                    /\ DigitsValue(s, p + n + 1, p + n + m) = 0
    IN  [finite |-> n + m > 0,
         atMostZero |-> zero \/ (s # <<>> /\ s[1] = "-")]

\* n.toString(16).padStart(2, '0') for n in 0..255
Hex2(n) == <<HexDigits[(n \div 16) + 1], HexDigits[(n % 16) + 1]>>

MapChars(Op(_), s) == [k \in 1..Len(s) |-> Op(s[k])]

\* trimmed.match(/^rgba?\(([^)]+)\)$/): the text between the parentheses, or
\* Null
RgbMatch(trimmed) ==
    LET open == IF Len(trimmed) >= 4 /\ SubSeq(trimmed, 1, 4) = <<"r", "g", "b", "(">>
                THEN 4
                ELSE IF Len(trimmed) >= 5
                        /\ SubSeq(trimmed, 1, 5) = <<"r", "g", "b", "a", "(">>
                THEN 5 ELSE 0
    IN  IF open # 0
            /\ Len(trimmed) >= open + 2
            /\ trimmed[Len(trimmed)] = ")"
            /\ \A k \in (open + 1)..(Len(trimmed) - 1) : trimmed[k] # ")"
        THEN <<SubSeq(trimmed, open + 1, Len(trimmed) - 1)>>
        ELSE Null

Clamp255(n) == Max(0, IF n < 255 THEN n ELSE 255)

\* normalizeCssColor: the six characters of the colour, or Null
NormalizeCssColor(value) ==
    LET trimmed == MapChars(LowerChar, Trim(value))
        hex == Tail(trimmed)
        rgbMatch == RgbMatch(trimmed)
        parts == [k \in 1..Len(Split(rgbMatch[1], ",")) |->
                    Trim(Split(rgbMatch[1], ",")[k])]
        rgb == [k \in 1..3 |-> ParseInt(parts[k])]
    IN  IF value = <<>> THEN Null
        ELSE IF trimmed = <<"t", "r", "a", "n", "s", "p", "a", "r", "e", "n", "t">>
        THEN Null
        ELSE IF trimmed # <<>> /\ trimmed[1] = "#" /\ Len(hex) = 3
        THEN <<MapChars(UpperChar, <<hex[1], hex[1], hex[2], hex[2], hex[3], hex[3]>>)>>
        ELSE IF trimmed # <<>> /\ trimmed[1] = "#" /\ Len(hex) >= 6
        THEN <<MapChars(UpperChar, SubSeq(hex, 1, 6))>>
        ELSE IF rgbMatch = Null \/ Len(parts) < 3 THEN Null
        ELSE IF Len(parts) >= 4
                /\ ParseFloat(parts[4]).finite /\ ParseFloat(parts[4]).atMostZero
        THEN Null
        ELSE IF \A k \in 1..3 : rgb[k].finite
        THEN <<MapChars(UpperChar,
                        Hex2(Clamp255(rgb[1].value)) \o Hex2(Clamp255(rgb[2].value))
                            \o Hex2(Clamp255(rgb[3].value)))>>
        ELSE Null

-----------------------------------------------------------------------------
(* docx-table-from-dom: convertTableDomToDocx *)

MaxGridRows == 2
MaxGridCols == 2
MaxGridCells == 4

\* Math.round(px * 15), for a whole number of px
PxToTwips(px) == px * 15

\* pt = px * 0.75; Math.max(1, Math.round(pt * 8)), for a whole number of px
PxToEighths(px) == Max(1, px * 6)

CssBorderStyle(style) ==
    CASE style = "dashed" -> "DASHED"
      [] style = "dotted" -> "DOTTED"
      [] style = "double" -> "DOUBLE"
      [] style = "none" -> "NONE"
      [] OTHER -> "SINGLE"

\* a field that is missing is Null, a field with value v is <<v>>
BorderSides == {"top", "right", "bottom", "left"}

\* one side of const border = {...}
BuildBorder(side) ==
    [style |-> CssBorderStyle(side.style),
     size |-> PxToEighths(side.widthPx),
     color |-> IF NormalizeCssColor(side.color) = Null
               THEN <<"0", "0", "0", "0", "0", "0">>
               ELSE NormalizeCssColor(side.color)[1]]

\* reading cell.border.top.style or cell.padding.top throws a TypeError:
\* border, one of its sides or padding is undefined
CellThrows(cell) ==
    IF cell.border = Null THEN TRUE
    ELSE IF \E side \in BorderSides : cell.border[1][side] = Null THEN TRUE
    ELSE cell.padding = Null

\* new TableCell({...}) with its paragraph, for a cell that does not throw
BuildCell(cell) ==
    [alignment |-> IF cell.textAlign = <<"center">> THEN "CENTER"
                   ELSE IF cell.textAlign = <<"right">> THEN "RIGHT"
                   ELSE "LEFT",
     text |-> IF cell.text = Null THEN "" ELSE cell.text[1],
     margins |-> [side \in BorderSides |-> PxToTwips(cell.padding[1][side])],
     borders |-> [side \in BorderSides |-> BuildBorder(cell.border[1][side][1])],
     shading |-> IF cell.background = Null THEN Null
                 ELSE NormalizeCssColor(cell.background[1]),
     rowSpan |-> IF cell.rowspan > 1 THEN <<cell.rowspan>> ELSE Null,
     columnSpan |-> IF cell.colspan > 1 THEN <<cell.colspan>> ELSE Null,
     verticalAlign |-> IF cell.verticalAlign = <<"top">> THEN "TOP"
                       ELSE IF cell.verticalAlign = <<"bottom">> THEN "BOTTOM"
                       ELSE "CENTER"]

\* const cells = model.cells[r] || []; const cell = cells[c]
EntryAt(m, row, col) ==
    IF row + 1 <= Len(m.cells) /\ col + 1 <= Len(m.cells[row + 1])
    THEN m.cells[row + 1][col + 1] ELSE Null

EmittedInRow(entry, row, col) == entry # Null /\ entry[1].originRow = row

\* the negation of: if (!cell || cell.originRow !== r || cell.originCol !== c) continue
Emitted(entry, row, col) ==
    entry # Null /\ entry[1].originRow = row /\ entry[1].originCol = col

\* the model cells of grid row `row` that the inner loop does not skip, in the
\* order of the loop
EmittedCells(m, row) ==
    LET cols == SelectSeq([k \in 1..m.colCount |-> k - 1],
                          LAMBDA col : Emitted(EntryAt(m, row, col), row, col))
    IN  [k \in 1..Len(cols) |-> EntryAt(m, row, cols[k])[1]]

-----------------------------------------------------------------------------
(* The table models given to convertTableDomToDocx *)

FullBorder ==
    <<[side \in BorderSides |->
        <<[widthPx |-> 2, style |-> "solid",
           color |-> <<"r", "g", "b", "(", "2", "5", "5", ",", " ", "0", ",", " ", "0", ")">>]>>]>>

\* a border without its top side
PartialBorder == <<[FullBorder[1] EXCEPT !["top"] = Null]>>

FullPadding == <<[side \in BorderSides |-> 4]>>

\* the text of the cell whose origin is (row, col)
TextOf(row, col) == <<<<"A", "B", "C">>, <<"D", "E", "F">>, <<"G", "H", "I">>>>[row + 1][col + 1]

\* a cell with every style field, as the extractor makes it
StyledCell(originRow, originCol, rowspan, colspan) ==
    [originRow |-> originRow, originCol |-> originCol,
     rowspan |-> rowspan, colspan |-> colspan,
     text |-> <<TextOf(originRow, originCol)>>,
     border |-> FullBorder, padding |-> FullPadding,
     background |-> <<<<"#", "f", "f", "f", "f", "f", "f">>>>,
     textAlign |-> <<"left">>, verticalAlign |-> <<"middle">>]

\* what grid position (row, col) may hold: nothing, a cell of its own with
\* spans 1 or 2, or the cell of the position to its left or above it
GridEntries(row, col) ==
    {Null}
    \cup {<<StyledCell(row, col, rs, cs)>> : rs \in 1..2, cs \in 1..2}
    \cup (IF col > 0 THEN {<<StyledCell(row, col - 1, 1, 2)>>} ELSE {})
    \cup (IF row > 0 THEN {<<StyledCell(row - 1, col, 2, 1)>>} ELSE {})

\* the grids of rc rows and cc columns of cells with every style field; the
\* last row of model.cells may be missing
GridsOf(rc, cc) ==
    LET entries == UNION {GridEntries(i, j) : i \in 0..(rc - 1), j \in 0..(cc - 1)}
    IN  {[rowCount |-> rc, colCount |-> cc, cells |-> SubSeq(cells, 1, given)] :
            cells \in {g \in [1..rc -> [1..cc -> entries]] :
                        \A i \in 1..rc, j \in 1..cc : g[i][j] \in GridEntries(i - 1, j - 1)},
            given \in {rc - 1, rc}}

GridModels ==
    UNION {GridsOf(size[1], size[2]) :
            size \in {sz \in (1..MaxGridRows) \X (1..MaxGridCols) :
                        sz[1] * sz[2] <= MaxGridCells}}

Backgrounds ==
    {<<"t", "r", "a", "n", "s", "p", "a", "r", "e", "n", "t">>,
     <<" ", "T", "R", "A", "N", "S", "P", "A", "R", "E", "N", "T", " ">>,
     <<"#", "a", "b", "c">>,
     <<"#", "A", "a", "B", "b", "C", "c">>,
     <<"#", "a", "a", "b", "b", "c", "c", "d", "d">>,
     <<"#", "a", "b", "c", "d">>,
     <<"#", "g", "g", "g">>,
     <<"r", "g", "b", "(", "2", "5", "5", ",", " ", "0", ",", " ", "0", ")">>,
     <<"r", "g", "b", "a", "(", "0", ",", " ", "0", ",", " ", "0", ",", " ", "0", ")">>,
     <<"r", "g", "b", "a", "(", "1", ",", "2", ",", "3", ",", "0", ".", "5", ")">>,
     <<"r", "g", "b", "a", "(", "1", ",", "2", ",", "3", ",", "-", "1", ")">>,
     <<"r", "g", "b", "(", "3", "0", "0", ",", "-", "5", ",", "1", "6", ")">>,
     <<"r", "g", "b", "(", "1", "0", "0", "%", ",", "0", "%", ",", "0", "%", ")">>,
     <<"r", "g", "b", "(", "1", ",", "2", ")">>,
     <<"r", "e", "d">>,
     <<"r", "g", "b", "a", "(", "0", ",", "0", ",", "0", ",", "0", ".", "0", ")">>}

\* one cell with style fields of every kind, some of them missing
StyleModels ==
    {[rowCount |-> 1, colCount |-> 1,
      cells |-> <<<<
        <<[StyledCell(0, 0, 1, 1) EXCEPT
            !.textAlign = textAlign, !.verticalAlign = verticalAlign,
            !.border = border, !.padding = padding, !.background = background]>>
      >>>>] :
        textAlign \in {Null, <<"left">>, <<"center">>, <<"right">>, <<"justify">>,
                       <<"start">>},
        verticalAlign \in {Null, <<"top">>, <<"bottom">>, <<"middle">>},
        border \in {Null, PartialBorder, FullBorder},
        padding \in {Null, FullPadding},
        background \in {Null} \cup {<<b>> : b \in Backgrounds}}

InitBuilder ==
    /\ model \in GridModels \cup StyleModels
    /\ docx = <<>>
    /\ brow = 0
    /\ bpc = "rows"
    /\ TableIdle
    /\ CssIdle
    /\ SpecificityIdle
    /\ FallbackIdle
    /\ EditableIdle

\* one turn of the loop over r: the cells of the row are built and
\* rows.push(new TableRow({ children: rowCells }))
BuildRow ==
    /\ bpc = "rows"
    /\ brow < model.rowCount
    /\ \A k \in 1..Len(EmittedCells(model, brow)) :
            ~CellThrows(EmittedCells(model, brow)[k])
    /\ docx' = Append(docx, [k \in 1..Len(EmittedCells(model, brow)) |->
                                BuildCell(EmittedCells(model, brow)[k])])
    /\ brow' = brow + 1
    /\ UNCHANGED <<model, bpc, selInput, selResult, spc, rawHtml, stripped, fpc>>
    /\ UNCHANGED tvars
    /\ UNCHANGED evars
    /\ UNCHANGED cvars

\* one turn of the loop over r that a TypeError ends
BuildRowThrows ==
    /\ bpc = "rows"
    /\ brow < model.rowCount
    /\ \E k \in 1..Len(EmittedCells(model, brow)) :
            CellThrows(EmittedCells(model, brow)[k])
    /\ bpc' = "thrown"
    /\ UNCHANGED <<model, docx, brow, selInput, selResult, spc, rawHtml, stripped, fpc>>
    /\ UNCHANGED tvars
    /\ UNCHANGED evars
    /\ UNCHANGED cvars

\* return new Table({ rows, layout: TableLayoutType.AUTOFIT })
BuilderReturns ==
    /\ bpc = "rows"
    /\ brow >= model.rowCount
    /\ bpc' = "returned"
    /\ UNCHANGED <<model, docx, brow, selInput, selResult, spc, rawHtml, stripped, fpc>>
    /\ UNCHANGED tvars
    /\ UNCHANGED evars
    /\ UNCHANGED cvars

NextBuilder == BuildRow \/ BuildRowThrows \/ BuilderReturns

SpecBuilder == InitBuilder /\ [][NextBuilder]_vars

-----------------------------------------------------------------------------
(* Properties of the table built *)

\* the model holds at grid position (row, col) a cell whose origin is (row, col)
HoldsOrigin(row, col) ==
    /\ row + 1 <= Len(model.cells)
    /\ col + 1 <= Len(model.cells[row + 1])
    /\ model.cells[row + 1][col + 1] # Null
    /\ model.cells[row + 1][col + 1][1].originRow = row
    /\ model.cells[row + 1][col + 1][1].originCol = col

\* the columns of grid row `row` where a cell has its origin
OriginColumns(row) == {col \in 0..(model.colCount - 1) : HoldsOrigin(row, col)}

\* the k-th of a set of numbers in increasing order
KthOf(S, k) == CHOOSE x \in S : Cardinality({y \in S : y < x}) = k - 1

\* C17: a cell is emitted for grid position (r, c) if and only if the model
\* cell there has origin (r, c); output row r holds exactly these cells in
\* increasing column order, and there is exactly one output row per grid row.
C17_EmitsOriginsOnly ==
    bpc = "returned" =>
        /\ Len(docx) = model.rowCount
        /\ \A row \in 0..(model.rowCount - 1) :
            /\ Len(docx[row + 1]) = Cardinality(OriginColumns(row))
            /\ \A k \in 1..Len(docx[row + 1]) :
                docx[row + 1][k].text = TextOf(row, KthOf(OriginColumns(row), k))

\* a table of two rows and two columns is built whose first row is one cell
\* over both columns and whose second row has a cell in each column
C17_Witness ==
    /\ bpc = "returned"
    /\ model.rowCount = 2 /\ model.colCount = 2 /\ Len(model.cells) = 2
    /\ OriginColumns(0) = {0}
    /\ model.cells[1][2] # Null
    /\ model.cells[1][2][1].originCol = 0
    /\ OriginColumns(1) = {0, 1}
    /\ Len(docx[1]) = 1 /\ docx[1][1].columnSpan = <<2>>
    /\ Len(docx[2]) = 2

\* the model cell that cell k of output row `row` was built from
OriginCell(row, k) == model.cells[row + 1][KthOf(OriginColumns(row), k) + 1][1]

\* the cells built so far, as pairs of the output row and the place in it
BuiltCells ==
    {rk \in (0..(Len(docx) - 1)) \X (1..MaxGridCols) : rk[2] <= Len(docx[rk[1] + 1])}

\* C18: textAlign center, right and justify map to the paragraph alignments
\* center, right and justified; every other value, a missing one too, maps to
\* left.
C18_TextAlignMapping ==
    \A rk \in BuiltCells :
        LET textAlign == OriginCell(rk[1], rk[2]).textAlign
        IN  docx[rk[1] + 1][rk[2]].alignment
                = (IF textAlign = <<"center">> THEN "CENTER"
                   ELSE IF textAlign = <<"right">> THEN "RIGHT"
                   ELSE IF textAlign = <<"justify">> THEN "JUSTIFIED"
                   ELSE "LEFT")

\* C19: convertTableDomToDocx never raises for a cell with missing or partial
\* style data: it returns, and a cell without border, a border side, padding,
\* background, textAlign or verticalAlign is emitted all the same, with left
\* alignment, centred vertical alignment and no shading where those are
\* missing.
C19_NeverRaisesOnMissingStyle ==
    /\ bpc # "thrown"
    /\ \A rk \in BuiltCells :
        LET cell == OriginCell(rk[1], rk[2])
            built == docx[rk[1] + 1][rk[2]]
        IN  /\ cell.textAlign = Null => built.alignment = "LEFT"
            /\ cell.verticalAlign = Null => built.verticalAlign = "CENTER"
            /\ cell.background = Null => built.shading = Null

\* the backgrounds of the model that are transparent: the keyword, and rgb()
\* or rgba() with an alpha of at most 0
TransparentBackgrounds ==
    {<<"t", "r", "a", "n", "s", "p", "a", "r", "e", "n", "t">>,
     <<" ", "T", "R", "A", "N", "S", "P", "A", "R", "E", "N", "T", " ">>,
     <<"r", "g", "b", "a", "(", "0", ",", " ", "0", ",", " ", "0", ",", " ", "0", ")">>,
     <<"r", "g", "b", "a", "(", "1", ",", "2", ",", "3", ",", "-", "1", ")">>,
     <<"r", "g", "b", "a", "(", "0", ",", "0", ",", "0", ",", "0", ".", "0", ")">>}

\* the six hexadecimal digits, in upper case, of the colours of the model
HexOfColour(background) ==
    CASE background = <<"#", "a", "b", "c">> ->
            <<"A", "A", "B", "B", "C", "C">>
      [] background = <<"#", "A", "a", "B", "b", "C", "c">> ->
            <<"A", "A", "B", "B", "C", "C">>
      [] background = <<"#", "a", "a", "b", "b", "c", "c", "d", "d">> ->
            <<"A", "A", "B", "B", "C", "C">>
      [] background = <<"r", "g", "b", "(", "2", "5", "5", ",", " ", "0", ",", " ", "0", ")">> ->
            <<"F", "F", "0", "0", "0", "0">>
      [] background = <<"r", "g", "b", "a", "(", "1", ",", "2", ",", "3", ",", "0", ".", "5", ")">> ->
            <<"0", "1", "0", "2", "0", "3">>
      [] background = <<"r", "g", "b", "(", "3", "0", "0", ",", "-", "5", ",", "1", "6", ")">> ->
            <<"F", "F", "0", "0", "1", "0">>
      [] background = <<"r", "g", "b", "(", "1", "0", "0", "%", ",", "0", "%", ",", "0", "%", ")">> ->
            <<"F", "F", "0", "0", "0", "0">>
      [] OTHER -> Null

UpperHexDigits == {UpperChar(HexDigits[k]) : k \in 1..Len(HexDigits)}

\* C20: no shading is set on an emitted cell whose background is transparent
\* or an rgb()/rgba() value with alpha <= 0; for every other background that
\* is parsed the shading fill is six upper-case hexadecimal digits, those of
\* the colour.
C20_ShadingFromBackground ==
    \A rk \in BuiltCells :
        LET cell == OriginCell(rk[1], rk[2])
            shading == docx[rk[1] + 1][rk[2]].shading
        IN  cell.background # Null =>
                /\ cell.background[1] \in TransparentBackgrounds => shading = Null
                /\ shading # Null =>
                    /\ Len(shading[1]) = 6
                    /\ \A k \in 1..6 : shading[1][k] \in UpperHexDigits
                /\ HexOfColour(cell.background[1]) # Null =>
                    shading = <<HexOfColour(cell.background[1])>>

-----------------------------------------------------------------------------
(* Properties of the placement of the source cells *)

\* C23: no source cell gets its origin at a position that a row-spanning cell
\* of an earlier row still occupies, and the origin columns of the cells of
\* one row strictly increase in source order.
C23_PlacedAtFreeColumns ==
    \A k \in 1..Len(placed) :
        /\ \A j \in 1..(k - 1) :
            /\ (placed[j].row < placed[k].row
                    /\ placed[j].row + placed[j].rowspan > placed[k].row) =>
                ~(placed[j].col <= placed[k].col
                    /\ placed[k].col < placed[j].col + placed[j].colspan)
            /\ placed[j].row = placed[k].row => placed[j].col < placed[k].col

\* C24: computeMaxColumns and the second pass run the same placement: every
\* source cell gets the same start column and the same occupied columns in
\* both, and the column count of the first pass is the colCount returned.
C24_PassesAgree ==
    pc = "done" =>
        LET first == FirstPassPlaced(table, rows, rowGroupEnds)
        IN  /\ Len(first) = Len(placed)
            /\ \A k \in 1..Len(placed) :
                /\ first[k].cell = placed[k].cell
                /\ first[k].col = placed[k].col
                /\ first[k].colspan = placed[k].colspan
            /\ maxColumns = colCount

\* C27: in the returned grid each cell lies inside the rectangle of its
\* origin, the rectangle lies inside the grid, and the cell stored at the
\* origin is its own origin with the same rowspan and colspan.
C27_OriginRectangles ==
    pc = "done" =>
        \A rr \in 0..(rowCount - 1), cc \in 0..(colCount - 1) :
            LET c == CellAt(rr, cc)
            IN  /\ c.originRow <= rr /\ rr < c.originRow + c.rowspan
                /\ c.originCol <= cc /\ cc < c.originCol + c.colspan
                /\ c.originRow >= 0 /\ c.originRow + c.rowspan <= rowCount
                /\ c.originCol >= 0 /\ c.originCol + c.colspan <= colCount
                /\ HasOrigin(CellAt(c.originRow, c.originCol), c.originRow, c.originCol)
                /\ CellAt(c.originRow, c.originCol).rowspan = c.rowspan
                /\ CellAt(c.originRow, c.originCol).colspan = c.colspan

\* a finished grid where a cell of a later row has taken a position out of
\* the rectangle of a row-spanning cell, which keeps its origin
C27_Witness ==
    /\ pc = "done"
    /\ \E p \in PlacedCells, q \in PlacedCells :
        /\ p.rowspan >= 2
        /\ q.row = p.row + 1
        /\ q.col = p.col
        /\ HasOrigin(CellAt(q.row, q.col), q.row, q.col)
        /\ HasOrigin(CellAt(p.row, p.col), p.row, p.col)
    /\ \E rr \in 0..(rowCount - 1), cc \in 0..(colCount - 1) :
        ~HasOrigin(CellAt(rr, cc), rr, cc)

\* C30: rowCount is the maximum of the number of the table's own rows and,
\* over the source cells, origin row + effective rowspan; a rowspan that runs
\* past the last row is not clipped.
C30_RowCount ==
    pc = "done" =>
        /\ rowCount >= Len(rows)
        /\ \A p \in PlacedCells : rowCount >= p.row + p.rowspan
        /\ \/ rowCount = Len(rows)
           \/ \E p \in PlacedCells : rowCount = p.row + p.rowspan
        /\ \A rr \in Len(rows)..(rowCount - 1), cc \in 0..(colCount - 1) :
            \/ CellAt(rr, cc).originRow < Len(rows)
            \/ /\ HasOrigin(CellAt(rr, cc), rr, cc)
               /\ CellAt(rr, cc).text = <<>>
               /\ CellAt(rr, cc).rowspan = 1 /\ CellAt(rr, cc).colspan = 1

\* a finished grid with a row below the last source row, holding a spanned
\* cell and a synthetic empty cell
C30_Witness ==
    /\ pc = "done"
    /\ rowCount > Len(rows)
    /\ \E cc \in 0..(colCount - 1) : CellAt(rowCount - 1, cc).originRow < Len(rows)
    /\ \E cc \in 0..(colCount - 1) : HasOrigin(CellAt(rowCount - 1, cc), rowCount - 1, cc)

-----------------------------------------------------------------------------
(* Tables whose first cell has rowspan and colspan attributes of every kind *)

\* absent, empty, not a number, negative, zero, whole numbers, fractions,
\* white space
SpanAttributes ==
    {NoAttr} \cup {Attr(v) : v \in {"", "abc", "-1", "0", "1", "2", "3", "0.5", "1.5", " "}}

InitAttributes ==
    /\ \E rs \in SpanAttributes, cs \in SpanAttributes,
          n \in 1..MaxRows, m \in 1..MaxCellsTotal, layout \in {"direct", "tbody"} :
         \E sizes \in [1..n -> 0..m] :
            /\ SumTo(sizes, n) = m
            /\ table = BuildTable(n,
                        [k \in 1..m |->
                            IF k = 1 THEN [rs |-> rs, cs |-> cs, kids |-> PlainText]
                            ELSE [rs |-> NoAttr, cs |-> NoAttr, kids |-> PlainText]],
                        sizes, layout)
    /\ env = Browser
    /\ pc = "start"
    /\ rows = <<>>
    /\ rowGroupEnds = <<>>
    /\ maxColumns = 0
    /\ r = 0
    /\ spanTracker = <<>>
    /\ grid = <<>>
    /\ placed = <<>>
    /\ rowCount = 0
    /\ colCount = 0
    /\ CssIdle
    /\ SpecificityIdle
    /\ FallbackIdle
    /\ BuilderIdle
    /\ EditableIdle

SpecAttributes == InitAttributes /\ [][NextNorm]_vars

\* what the rule for span attributes gives: 1 for an attribute that is
\* absent, empty, no number or negative, n for the whole number n >= 1
SpanByRule(a) ==
    IF ~a.present THEN <<1>>
    ELSE CASE a.value \in {"", "abc", " ", "-1"} -> <<1>>
           [] a.value = "1" -> <<1>>
           [] a.value = "2" -> <<2>>
           [] a.value = "3" -> <<3>>
           [] OTHER -> Null

\* C25: an absent, empty, non-numeric or negative rowspan/colspan gives span
\* 1; a whole number n >= 1 gives span n, not clipped to the table or the row
\* group; and exactly 0 is the only value taken as the extend-to-end sentinel.
C25_SpanAttributeResolution ==
    \A k \in 1..Len(placed) :
        LET cell == NodeAt(table, placed[k].cell)
        IN  /\ SpanByRule(cell.rowspan) # Null => placed[k].rowspan = SpanByRule(cell.rowspan)[1]
            /\ SpanByRule(cell.colspan) # Null => placed[k].colspan = SpanByRule(cell.colspan)[1]
            /\ SpanAttrIsZero(cell.rowspan) => cell.rowspan.value = "0"
            /\ SpanAttrIsZero(cell.colspan) => cell.colspan.value = "0"

-----------------------------------------------------------------------------
(* extractTableDomModel: the normalized grid, the matrix of the source cell
   elements, and the style the injected resolver gives for each position *)

\* a slot of the element matrix that no cell was written to (undefined)
UndefinedSlot == <<<<-1>>>>

\* a variant that keeps the element only at the first position of the span
WriteElementsAtOrigin(g, row, col, rowspan, colspan, cell) ==
    [rr \in 1..Max(Len(g), row + 1) |->
        LET old == IF rr <= Len(g) THEN g[rr] ELSE <<>>
        IN  IF rr - 1 = row
            THEN [cc \in 1..Max(Len(old), col + 1) |->
                    IF cc - 1 = col THEN <<cell>>
                    ELSE IF cc <= Len(old) THEN old[cc] ELSE UndefinedSlot]
            ELSE old]

\* grid[rr][cc] = cell for rr in row..row+rowspan-1, cc in col..col+colspan-1
WriteElements(g, row, col, rowspan, colspan, cell) ==
    [rr \in 1..Max(Len(g), row + rowspan) |->
        LET old == IF rr <= Len(g) THEN g[rr] ELSE <<>>
        IN  IF rr - 1 >= row /\ rr - 1 < row + rowspan
            THEN [cc \in 1..Max(Len(old), col + colspan) |->
                    IF cc - 1 >= col /\ cc - 1 < col + colspan THEN <<cell>>
                    ELSE IF cc <= Len(old) THEN old[cc] ELSE UndefinedSlot]
            ELSE old]

\* the cells of one row in buildCellElementMatrix, from cell k on
RECURSIVE PlaceElements(_, _, _, _, _, _, _, _, _)
PlaceElements(root, cells, k, row, ends, mx, col, st, g) ==
    IF k > Len(cells) THEN [st |-> st, grid |-> g]
    ELSE LET c0 == SkipOccupied(st, col)
             rowspan == RowspanOf(root, cells[k], ends, row)
             cv == ParseSpan(NodeAt(root, cells[k]).colspan)
             colspan == IF cv = <<0>> THEN Max(1, mx - c0) ELSE NormalizeSpanValue(cv)
         IN  PlaceElements(root, cells, k + 1, row, ends, mx, c0 + colspan,
                           MarkSpans(st, c0, colspan, rowspan),
                           WriteElements(g, row, c0, rowspan, colspan, cells[k]))

RECURSIVE ElementRows(_, _, _, _, _, _, _)
ElementRows(root, rs, ends, mx, row, st, g) ==
    IF row >= Len(rs) THEN g
    ELSE LET res == PlaceElements(root, GetRowCells(root, rs[row + 1]), 1, row, ends,
                                  mx, 0, DecrementSpans(st),
                                  IF row + 1 > Len(g) THEN Append(g, <<>>) ELSE g)
         IN  ElementRows(root, rs, ends, mx, row + 1, res.st, res.grid)

\* the loop over rowCount x colCount that turns undefined into null, then
\* grid.length = rowCount
FillElements(g, rc, cc) ==
    [rr \in 1..rc |->
        LET old == IF rr <= Len(g) THEN g[rr] ELSE <<>>
        IN  [c \in 1..Max(Len(old), cc) |->
                IF c <= Len(old) /\ old[c] # UndefinedSlot THEN old[c] ELSE Null]]

BuildCellElementMatrix(root, e, rc, cc) ==
    LET rs == GetTableRows(root, e)
        ends == GetRowGroupEnds(rs)
        mx == ComputeMaxColumns(root, rs, ends)
    IN  FillElements(ElementRows(root, rs, ends, mx, 0, <<>>, <<>>), rc, cc)

\* cellMatrix[cell.row]?.[cell.col]
MatrixAt(m, row, col) ==
    IF row + 1 <= Len(m) /\ col + 1 <= Len(m[row + 1])
    THEN m[row + 1][col + 1] ELSE UndefinedSlot

\* the node the resolver is called on: el ? getStyle(el) : getStyle(table),
\* as a path from the table
StyledNode(el) == IF el = Null \/ el = UndefinedSlot THEN <<>> ELSE el[1]

\* px(value): parseFloat(value || '0'), 0 when not finite; for values that
\* are a whole number of px and not negative
Px(value) ==
    LET raw == IF value = <<>> THEN <<"0">> ELSE value
        s == TrimStart(raw)
        p == AfterSign(s)
    IN  IF ParseFloat(raw).finite THEN DigitsValue(s, p, p + DigitRun(s, p) - 1) ELSE 0

\* the number that stands for a node in the styles of the resolver: 99 for
\* the table, and a different number below 99 for every cell
RECURSIVE PathNumber(_)
PathNumber(path) ==
    IF path = <<>> THEN 0
    ELSE 4 * PathNumber(SubSeq(path, 1, Len(path) - 1)) + path[Len(path)]

PxText(n) ==
    (IF n < 10 THEN <<Digits[n + 1]>>
     ELSE <<Digits[(n \div 10) + 1], Digits[(n % 10) + 1]>>) \o <<"p", "x">>

\* the injected style resolver: as in the tests, paddingLeft tells the nodes
\* apart and the other properties are the same for every node
GetStyle(node) ==
    [paddingTop |-> <<"0", "p", "x">>,
     paddingRight |-> <<"0", "p", "x">>,
     paddingBottom |-> <<"0", "p", "x">>,
     paddingLeft |-> PxText(IF node = <<>> THEN 99 ELSE PathNumber(node)),
     borderWidth |-> <<"1", "p", "x">>,
     borderStyle |-> "solid",
     borderColor |-> <<"#", "0", "0", "0", "0", "0", "0">>,
     textAlign |-> "left",
     verticalAlign |-> "",
     backgroundColor |-> <<"#", "f", "f", "f", "f", "f", "f">>]

\* borderFromStyle(style, side); the resolver gives every side the same border
BorderFromStyle(style, side) ==
    [widthPx |-> Px(style.borderWidth),
     style |-> IF style.borderStyle = "" THEN "none" ELSE style.borderStyle,
     color |-> IF style.borderColor = <<>>
               THEN <<"#", "0", "0", "0", "0", "0", "0">> ELSE style.borderColor]

\* the model cell made of a normalized cell and the style of its element
ModelCell(cell, style) ==
    [row |-> cell.row, col |-> cell.col,
     originRow |-> cell.originRow, originCol |-> cell.originCol,
     rowspan |-> cell.rowspan, colspan |-> cell.colspan,
     text |-> <<cell.text>>, nestedTables |-> cell.nestedTables,
     padding |-> <<[side \in BorderSides |->
                    CASE side = "top" -> Px(style.paddingTop)
                      [] side = "right" -> Px(style.paddingRight)
                      [] side = "bottom" -> Px(style.paddingBottom)
                      [] OTHER -> Px(style.paddingLeft)]>>,
     border |-> <<[side \in BorderSides |-> <<BorderFromStyle(style, side)>>]>>,
     background |-> <<IF style.backgroundColor = <<>>
                      THEN <<"t", "r", "a", "n", "s", "p", "a", "r", "e", "n", "t">>
                      ELSE style.backgroundColor>>,
     textAlign |-> <<IF style.textAlign = "" THEN "left" ELSE style.textAlign>>,
     verticalAlign |-> <<IF style.verticalAlign = "" THEN "middle"
                         ELSE style.verticalAlign>>]

\* extractTableDomModel, given the result of normalizeTableElement
ExtractTableDomModel(root, e, cells, rc, cc) ==
    LET cellMatrix == BuildCellElementMatrix(root, e, rc, cc)
    IN  [rowCount |-> rc, colCount |-> cc,
         cells |-> [i \in 1..Len(cells) |->
                        [j \in 1..Len(cells[i]) |->
                            <<ModelCell(cells[i][j],
                                GetStyle(StyledNode(
                                    MatrixAt(cellMatrix, cells[i][j].row,
                                             cells[i][j].col))))>>]]]

\* extractTableDomModel after its call of normalizeTableElement; the model
\* is then given to convertTableDomToDocx
Extract ==
    /\ pc = "done"
    /\ bpc = "off"
    /\ model' = ExtractTableDomModel(table, env, grid, rowCount, colCount)
    /\ docx' = <<>>
    /\ brow' = 0
    /\ bpc' = "rows"
    /\ UNCHANGED <<selInput, selResult, spc, rawHtml, stripped, fpc>>
    /\ UNCHANGED tvars
    /\ UNCHANGED evars
    /\ UNCHANGED cvars


-----------------------------------------------------------------------------
(* Properties of the extracted model *)

\* what the resolver's style for a node leaves in padding.left of a cell
ResolverMark(node) == Px(GetStyle(node).paddingLeft)

\* the source cells whose span rectangle holds position (rr, cc)
Covering(rr, cc) ==
    {p \in PlacedCells :
        /\ p.row <= rr /\ rr < p.row + p.rowspan
        /\ p.col <= cc /\ cc < p.col + p.colspan}

SpanOrOne(span) == IF span = Null THEN 1 ELSE span[1]

\* the emitted cells, by row and place in the row, whose span rectangle holds
\* position (rr, cc)
EmittedOver(rr, cc) ==
    {e \in {<<row, k>> : row \in 0..(Len(docx) - 1), k \in 1..model.colCount} :
        /\ e[2] <= Len(docx[e[1] + 1])
        /\ LET origin == EmittedCells(model, e[1])[e[2]]
               built == docx[e[1] + 1][e[2]]
           IN  /\ origin.originRow <= rr
               /\ rr < origin.originRow + SpanOrOne(built.rowSpan)
               /\ origin.originCol <= cc
               /\ cc < origin.originCol + SpanOrOne(built.columnSpan)}

\* C28: the span rectangles of the cells that convertTableDomToDocx emits
\* from the extracted model cover each position of the grid exactly once.
C28_EmittedCellsTile ==
    bpc = "returned" =>
        \A rr \in 0..(model.rowCount - 1), cc \in 0..(model.colCount - 1) :
            Cardinality(EmittedOver(rr, cc)) = 1

-----------------------------------------------------------------------------
(* The editable AST of a table: parseTable of html-editable-parser and
   convertTable of the editable-AST table converter *)

\* options.maxTableDepth ?? 3
DefaultMaxTableDepth == 3

\* a variant that gives every cell the next column, whatever the tracker says
RECURSIVE ParseCellsPacked(_, _, _, _, _, _, _, _, _)
ParseCellsPacked(root, cells, k, rowIndex, ends, mx, colIndex, st, parsedCells) ==
    IF k > Len(cells) THEN [st |-> st, cells |-> parsedCells]
    ELSE LET rowSpan == RowspanOf(root, cells[k], ends, rowIndex)
             cv == ParseSpan(NodeAt(root, cells[k]).colspan)
             colSpan == IF cv = <<0>> THEN Max(1, mx - colIndex)
                        ELSE NormalizeSpanValue(cv)
         IN  ParseCellsPacked(root, cells, k + 1, rowIndex, ends, mx, colIndex + colSpan,
                        MarkSpans(st, colIndex, colSpan, rowSpan),
                        Append(parsedCells,
                               [type |-> "htmlTableCell", columnIndex |-> colIndex,
                                rowSpan |-> rowSpan, colSpan |-> colSpan,
                                isHeaderCell |-> NodeAt(root, cells[k]).tag = "th"]))

\* the cells of one row in parseTable, from cell k on
RECURSIVE ParseCells(_, _, _, _, _, _, _, _, _)
ParseCells(root, cells, k, rowIndex, ends, mx, colIndex, st, parsedCells) ==
    IF k > Len(cells) THEN [st |-> st, cells |-> parsedCells]
    ELSE LET c0 == SkipOccupied(st, colIndex)
             rowSpan == RowspanOf(root, cells[k], ends, rowIndex)
             cv == ParseSpan(NodeAt(root, cells[k]).colspan)
             colSpan == IF cv = <<0>> THEN Max(1, mx - c0) ELSE NormalizeSpanValue(cv)
         IN  ParseCells(root, cells, k + 1, rowIndex, ends, mx, c0 + colSpan,
                        MarkSpans(st, c0, colSpan, rowSpan),
                        Append(parsedCells,
                               [type |-> "htmlTableCell", columnIndex |-> c0,
                                rowSpan |-> rowSpan, colSpan |-> colSpan,
                                isHeaderCell |-> NodeAt(root, cells[k]).tag = "th"]))

\* the loop over rowIndex of parseTable
RECURSIVE ParseRows(_, _, _, _, _, _, _)
ParseRows(root, rs, ends, mx, rowIndex, st, parsedRows) ==
    IF rowIndex >= Len(rs) THEN parsedRows
    ELSE LET res == ParseCells(root, GetRowCells(root, rs[rowIndex + 1]), 1, rowIndex,
                               ends, mx, 0, DecrementSpans(st), <<>>)
         IN  ParseRows(root, rs, ends, mx, rowIndex + 1, res.st,
                       Append(parsedRows, [type |-> "htmlTableRow", cells |-> res.cells]))

\* parseTable(tableEl, ctx): null at the depth limit and for a table without
\* rows, else the table node; the styles and the children of the cells are
\* left out
ParseTable(root, e, ctx) ==
    IF ctx.tableDepth >= ctx.maxTableDepth THEN Null
    ELSE LET rs == GetTableRows(root, e)
             ends == GetRowGroupEnds(rs)
             mx == ComputeMaxColumns(root, rs, ends)
         IN  IF Len(rs) = 0 THEN Null
             ELSE <<[type |-> "htmlTable",
                     rows |-> ParseRows(root, rs, ends, mx, 0, <<>>, <<>>)]>>

\* a variant that always sets the spans
ConvertCellAlways(cell) ==
    [rowSpan |-> <<cell.rowSpan>>, columnSpan |-> <<cell.colSpan>>]

\* rowSpan: cell.rowSpan > 1 ? cell.rowSpan : undefined, and columnSpan alike
ConvertCell(cell) ==
    [rowSpan |-> IF cell.rowSpan > 1 THEN <<cell.rowSpan>> ELSE Null,
     columnSpan |-> IF cell.colSpan > 1 THEN <<cell.colSpan>> ELSE Null]

\* the rows that convertTable builds: for (row of node.rows) for (cell of row.cells)
ConvertTableRows(node) ==
    [i \in 1..Len(node.rows) |->
        [k \in 1..Len(node.rows[i].cells) |-> ConvertCell(node.rows[i].cells[k])]]

\* parseHtmlToEditableAst reaches the table: parseTable at depth 0
ParseTableStep ==
    /\ epc = "off"
    /\ bpc = "returned"
    /\ tableNode' = ParseTable(table, env, [maxTableDepth |-> DefaultMaxTableDepth,
                                            tableDepth |-> 0])
    /\ epc' = "parsed"
    /\ UNCHANGED etable
    /\ UNCHANGED tvars
    /\ UNCHANGED cvars
    /\ UNCHANGED ovars

\* if (table) blocks.push(table), and convertTable of the pushed node
ConvertTable ==
    /\ epc = "parsed"
    /\ tableNode # Null
    /\ etable' = ConvertTableRows(tableNode[1])
    /\ epc' = "converted"
    /\ UNCHANGED tableNode
    /\ UNCHANGED tvars
    /\ UNCHANGED cvars
    /\ UNCHANGED ovars

-----------------------------------------------------------------------------
(* One table through both exports: normalizeTableElement, extractTableDomModel
   and convertTableDomToDocx, then parseTable and convertTable; the two
   exports share no state and run one after the other *)

NextExtract ==
    \/ Start
    \/ ProcessRow
    \/ Finish
    \/ Extract
    \/ BuildRow
    \/ BuilderReturns
    \/ ParseTableStep
    \/ ConvertTable

InitExtract == TableInit(SpanKinds, {"direct", "tbody", "mixed"}, {Browser})

SpecExtract == InitExtract /\ [][NextExtract]_vars

-----------------------------------------------------------------------------
(* Properties of the two exports *)

\* C21: an emitted cell carries rowSpan (columnSpan) exactly when the rowspan
\* (colspan) of its model cell is greater than 1, and then with that value,
\* in convertTableDomToDocx and in convertTable of the editable AST.
C21_SpanOnlyAboveOne ==
    /\ \A row \in 0..(Len(docx) - 1) :
        \A k \in 1..Len(docx[row + 1]) :
            LET cell == EmittedCells(model, row)[k]
                built == docx[row + 1][k]
            IN  /\ built.rowSpan = (IF cell.rowspan > 1 THEN <<cell.rowspan>> ELSE Null)
                /\ built.columnSpan = (IF cell.colspan > 1 THEN <<cell.colspan>> ELSE Null)
    /\ epc = "converted" =>
        \A i \in 1..Len(etable) :
            \A k \in 1..Len(etable[i]) :
                LET cell == tableNode[1].rows[i].cells[k]
                    built == etable[i][k]
                IN  /\ built.rowSpan = (IF cell.rowSpan > 1 THEN <<cell.rowSpan>> ELSE Null)
                    /\ built.columnSpan = (IF cell.colSpan > 1 THEN <<cell.colSpan>> ELSE Null)

\* both exports have emitted a cell with a span of 2 and a cell whose spans
\* are 1 and unset
C21_Witness ==
    /\ epc = "converted"
    /\ \E row \in 0..(Len(docx) - 1) : \E k \in 1..Len(docx[row + 1]) :
        docx[row + 1][k].rowSpan = <<2>> /\ docx[row + 1][k].columnSpan = Null
    /\ \E row \in 0..(Len(docx) - 1) : \E k \in 1..Len(docx[row + 1]) :
        /\ EmittedCells(model, row)[k].rowspan = 1
        /\ docx[row + 1][k].rowSpan = Null
    /\ \E i \in 1..Len(etable) : \E k \in 1..Len(etable[i]) :
        etable[i][k].columnSpan = <<2>> /\ etable[i][k].rowSpan = Null

\* the cells of the table node as (row index, columnIndex, rowSpan, colSpan)
ParsedPlacements ==
    IF tableNode = Null THEN {}
    ELSE UNION {{<<i - 1, tableNode[1].rows[i].cells[k].columnIndex,
                   tableNode[1].rows[i].cells[k].rowSpan,
                   tableNode[1].rows[i].cells[k].colSpan>> :
                    k \in 1..Len(tableNode[1].rows[i].cells)} :
                i \in 1..Len(tableNode[1].rows)}

\* C29: parseTable and normalizeTableElement place the cells identically: the
\* set of (row index, columnIndex, rowSpan, colSpan) of the parsed cells is
\* the set of (originRow, originCol, rowspan, colspan) of the source cells
\* that the normalizer placed.
C29_SamePlacement ==
    epc # "off" =>
        ParsedPlacements = {<<p.row, p.col, p.rowspan, p.colspan>> : p \in PlacedCells}


\* a parsed table with a cell of colspan="0" and a cell of rowspan="0" that
\* spans two rows or more
C29_Witness ==
    /\ epc # "off"
    /\ tableNode # Null
    /\ \E p \in PlacedCells :
        /\ SpanAttrIsZero(NodeAt(table, p.cell).colspan)
        /\ <<p.row, p.col, p.rowspan, p.colspan>> \in ParsedPlacements
    /\ \E p \in PlacedCells :
        /\ SpanAttrIsZero(NodeAt(table, p.cell).rowspan)
        /\ p.rowspan >= 2
        /\ <<p.row, p.col, p.rowspan, p.colspan>> \in ParsedPlacements

-----------------------------------------------------------------------------
(* Stylesheets with a conditional at-rule block *)

\* the ways the model puts a rule into an at-rule block:
\*   @media print { rule }
\*   @media print { @supports (x) { rule } }
\*   @media print { div { rule } }
AtRuleBlocks(rule) ==
    { AtRuleNode(<<rule>>),
      AtRuleNode(<<AtRuleNode(<<rule>>)>>),
      AtRuleNode(<<RuleNode(<<"div">>, <<rule>>)>>) }

AtRuleShapes ==
    [selectors : {<<"div">>, <<".c">>, <<"#i">>}, decls : DeclLists]

\* the html given: its elements and one <style> block with at most one rule
\* of the top level and at most one at-rule block after it
InitAtRules ==
    /\ \E style \in {<<>>, <<"color", ":", "in1">>} :
         \E plain \in {<<>>} \cup {<<BuildRule(1, shape)>> : shape \in AtRuleShapes},
            block \in {<<>>} \cup
                      UNION {{<<b>> : b \in AtRuleBlocks(BuildRule(2, shape))} :
                                shape \in AtRuleShapes} :
            html = [elements |-> Elements(style), styles |-> <<plain \o block>>]
    /\ doc = <<>>
    /\ sheet = <<>>
    /\ cpc = "start"
    /\ ruleIndex = 0
    /\ order = 0
    /\ state = <<>>
    /\ TableIdle
    /\ SpecificityIdle
    /\ FallbackIdle
    /\ BuilderIdle
    /\ EditableIdle

SpecAtRules == InitAtRules /\ [][NextCss]_vars

\* the stylesheet without its at-rule blocks
RECURSIVE WithoutAtRules(_)
WithoutAtRules(nodes) ==
    LET kept == SelectSeq(nodes, LAMBDA n : n.type # "atrule")
    IN  [i \in 1..Len(kept) |-> [kept[i] EXCEPT !.nodes = WithoutAtRules(@)]]

\* C26: a style rule nested inside a conditional at-rule, at any nesting
\* depth, never changes the resolved style of an element: the document that
\* preprocessHtmlForDocx returns is the one it returns for the same
\* stylesheet without the at-rule blocks.
C26_AtRulesIgnored ==
    cpc = "done" =>
        LET rules == WalkRules(WithoutAtRules(Flatten(html.styles)), "root")
            st == StateAfterRules(html.elements, rules, Len(rules)).state
        IN  doc = [e \in 1..Len(html.elements) |->
                    IF e \in DOMAIN st
                    THEN WriteInlineStyles(html.elements[e], st[e])
                    ELSE html.elements[e]]

=============================================================================
